---- MODULE Spec2Model ----
(***************************************************************************)
(* Skew estimation and correction of Paddle_Form_OCR.                      *)
(*                                                                         *)
(* Numbers.  The Python code computes in float64.  Here                    *)
(*   - an angle is an integer number of 1/100 degree (Deg),                *)
(*   - a confidence is an integer number of 1/1000 (Milli), a quotient     *)
(*     being rounded down to that grid,                                    *)
(*   - a quotient whose exact value a statement is about (the fused angle, *)
(*     a blank rate) is kept exact as a fraction [num, den], den > 0,      *)
(*   - cos and sin of the scan angles are table values of 1/1000000.       *)
(*                                                                         *)
(* Library calls (cv2.findContours, cv2.minAreaRect, cv2.HoughLinesP,      *)
(* cv2.Canny, np.var of a projection, sklearn PCA, cv2.imread) are not     *)
(* part of the repository: what they return is an input of the action that *)
(* calls them, drawn from a small set of the values the call can return.   *)
(* cv2.warpAffine is computed for the matrices whose resampling is exact   *)
(* on the pixel grid (a translation by 0 or 1/2 pixel); at any other       *)
(* matrix the result records the call and leaves the pixels out.           *)
(***************************************************************************)
EXTENDS Integers, Sequences, FiniteSets, TLC

(***************************************************************************)
(* Bounds of the model.                                                    *)
(***************************************************************************)
MaxW == 5          \* widest image, in pixels
MaxH == 3          \* tallest image, in pixels
MaxVar == 1        \* largest projection variance drawn

(***************************************************************************)
(* Program constants.                                                      *)
(***************************************************************************)
Deg(n) == n * 100          \* n degrees, in 1/100 degree
Milli(n, d) == (n * 1000) \div d     \* n / d in 1/1000, rounded down
One == Milli(1, 1)         \* the confidence 1.0
White == 255               \* borderValue=(255, 255, 255)
MinEdgePoints == 10        \* "if len(points) < 10"
RotateEpsilon == 10        \* "if abs(angle) < 0.1", in 1/100 degree

(***************************************************************************)
(* Arithmetic helpers.                                                     *)
(***************************************************************************)
Abs(x) == IF x < 0 THEN -x ELSE x
Min(a, b) == IF a <= b THEN a ELSE b
Max(a, b) == IF a >= b THEN a ELSE b

\* Python's int(): truncation toward zero of n / d, d > 0.
TruncDiv(n, d) == IF n >= 0 THEN n \div d ELSE -((-n) \div d)

RECURSIVE SumSeq(_)
SumSeq(s) == IF s = <<>> THEN 0 ELSE Head(s) + SumSeq(Tail(s))

\* floor(sqrt(n)), 0 <= n < 46340 * 46340, by bisection of lo..hi.
RECURSIVE ISqrtIn(_, _, _)
ISqrtIn(n, lo, hi) ==
    IF lo >= hi THEN lo
    ELSE LET mid == (lo + hi + 1) \div 2
         IN IF mid * mid <= n THEN ISqrtIn(n, mid, hi) ELSE ISqrtIn(n, lo, mid - 1)
ISqrt(n) == ISqrtIn(n, 0, 46339)

RECURSIVE GCD(_, _)
GCD(a, b) == IF b = 0 THEN a ELSE GCD(b, a % b)

\* The fraction n / d, d > 0, in lowest terms: equal fractions are equal
\* records.
Frac(n, d) == LET g == GCD(Abs(n), d) IN [num |-> n \div g, den |-> d \div g]
FracEq(a, b) == a = b
FracLe(a, b) == a.num * b.den <= b.num * a.den
FracLt(a, b) == a.num * b.den < b.num * a.den
FracIsZero(a) == a.num = 0
FracAbsLt(a, k) == Abs(a.num) < k * a.den      \* |a| < k, k an integer

(***************************************************************************)
(* Images: one channel, h rows of w grey values.  px[y][x], 1-based.       *)
(***************************************************************************)
Patterns == {"white", "grey", "dot"}

PatternPixel(p, x, y) ==
    CASE p = "white" -> White
      [] p = "grey" -> 100
      [] OTHER -> IF x = 1 /\ y = 1 THEN 0 ELSE White

MkImage(w, h, p) ==
    [w |-> w, h |-> h,
     px |-> [y \in 1..h |-> [x \in 1..w |-> PatternPixel(p, x, y)]]]

\* Both sides are at least 2: cv2.resize(binary, None, fx=0.5, fy=0.5) of the
\* projection estimator has no result for a side of 1.
TestImages == {MkImage(w, h, p) : w \in 2..MaxW, h \in 2..MaxH, p \in Patterns}

NoImage == [w |-> 0, h |-> 0, px |-> <<>>]

(***************************************************************************)
(* cv2.warpAffine(image, M, (nw, nh), INTER_LINEAR, BORDER_CONSTANT,       *)
(* border) for M = [[1, 0, tx2/2], [0, 1, ty2/2]], tx2, ty2 in {0, 1}:     *)
(* dst(x, y) is the bilinear sample of src at (x - tx2/2, y - ty2/2); a    *)
(* neighbour outside src is the border value.  The four weights are        *)
(* quarters and the sum is rounded to nearest, halves up.                  *)
(***************************************************************************)
Sample(img, X, Y, border) ==          \* X, Y 0-based
    IF 0 <= X /\ X < img.w /\ 0 <= Y /\ Y < img.h
    THEN img.px[Y + 1][X + 1] ELSE border

WarpTranslate(img, tx2, ty2, nw, nh, border) ==
    LET val(x, y) ==
          LET x0 == x - tx2
              y0 == y - ty2
              w00 == (2 - tx2) * (2 - ty2)
              w10 == tx2 * (2 - ty2)
              w01 == (2 - tx2) * ty2
              w11 == tx2 * ty2
          IN (  w00 * Sample(img, x0, y0, border)
              + w10 * Sample(img, x0 + 1, y0, border)
              + w01 * Sample(img, x0, y0 + 1, border)
              + w11 * Sample(img, x0 + 1, y0 + 1, border) + 2) \div 4
    IN [w |-> nw, h |-> nh,
        px |-> [y \in 1..nh |-> [x \in 1..nw |-> val(x - 1, y - 1)]]]

(***************************************************************************)
(* The four rotate_image helpers.  A result is                             *)
(*   kind     "input": the argument itself was returned;                   *)
(*            "warp":  a buffer made by cv2.warpAffine;                    *)
(*            "turn":  a buffer made by cv2.rotate;                        *)
(*   matrix   whether cv2.getRotationMatrix2D was called,                  *)
(*   matAngle the angle it was called with,                                *)
(*   img      the image returned (NoImage: pixels not computed).           *)
(***************************************************************************)
Returned(img) ==
    [kind |-> "input", matrix |-> FALSE, matAngle |-> Frac(0, 1), img |-> img]

Warped(a, img) ==
    [kind |-> "warp", matrix |-> TRUE, matAngle |-> a, img |-> img]

Turned(img) ==
    [kind |-> "turn", matrix |-> FALSE, matAngle |-> Frac(0, 1), img |-> img]

\* 5_OpenCV_Advanced: no test of the angle; the canvas grows to the rotated
\* bounds and the matrix is shifted by (new_w / 2 - w // 2, new_h / 2 - h // 2).
rotate_image_opencv(img, angle) ==
    IF FracIsZero(angle)
    THEN LET new_w == img.w          \* int(h * 0 + w * 1)
             new_h == img.h          \* int(h * 1 + w * 0)
             tx2 == new_w - 2 * (img.w \div 2)
             ty2 == new_h - 2 * (img.h \div 2)
         IN Warped(angle, WarpTranslate(img, tx2, ty2, new_w, new_h, White))
    ELSE Warped(angle, NoImage)

\* 2_Scikit_Learn_PCA and 3_MobileNetV3_DL: identical bodies.
rotate_image_pca(img, angle) ==
    IF FracAbsLt(angle, RotateEpsilon) THEN Returned(img)
    ELSE Warped(angle, NoImage)

rotate_image_dl(img, angle) ==
    IF FracAbsLt(angle, RotateEpsilon) THEN Returned(img)
    ELSE Warped(angle, NoImage)

\* cv2.rotate: exact quarter and half turns.
Rotate90CW(img) ==
    [w |-> img.h, h |-> img.w,
     px |-> [y \in 1..img.w |-> [x \in 1..img.h |-> img.px[img.h + 1 - x][y]]]]

Rotate90CCW(img) ==
    [w |-> img.h, h |-> img.w,
     px |-> [y \in 1..img.w |-> [x \in 1..img.h |-> img.px[x][img.w + 1 - y]]]]

Rotate180(img) ==
    [w |-> img.w, h |-> img.h,
     px |-> [y \in 1..img.h |->
               [x \in 1..img.w |-> img.px[img.h + 1 - y][img.w + 1 - x]]]]

\* 1_Hough_Line_Detection: only the exact angle 0 is the identity; any other
\* angle but 90, 180, 270 is passed negated to the matrix.
rotate_image_hough(img, angle) ==
    IF FracIsZero(angle) THEN Returned(img)
    ELSE IF FracEq(angle, Frac(Deg(90), 1)) THEN Turned(Rotate90CW(img))
    ELSE IF FracEq(angle, Frac(Deg(270), 1)) THEN Turned(Rotate90CCW(img))
    ELSE IF FracEq(angle, Frac(Deg(180), 1)) THEN Turned(Rotate180(img))
    ELSE Warped([num |-> -angle.num, den |-> angle.den], NoImage)

(***************************************************************************)
(* The estimators of 5_OpenCV_Advanced/preprocess_opencv.py.  An estimate  *)
(* is (angle, confidence).                                                 *)
(***************************************************************************)
Estimate(a, c) == [angle |-> a, conf |-> c]
Abstain == Estimate(0, 0)

\* max(contours, key=cv2.contourArea): the first contour of the largest area.
RECURSIVE LargestContour(_)
LargestContour(cs) ==
    IF Len(cs) = 1 THEN cs[1]
    ELSE LET rest == LargestContour(Tail(cs))
         IN IF cs[1].area >= rest.area THEN cs[1] ELSE rest

\* A contour is [area |-> cv2.contourArea, rect |-> cv2.minAreaRect(...)[2]].
detect_angle_by_contours(img, contours) ==
    IF contours = <<>> THEN Abstain
    ELSE LET largest == LargestContour(contours)
             angle == IF largest.rect < Deg(-45) THEN Deg(90) + largest.rect
                      ELSE largest.rect
             image_area == img.h * img.w
         IN Estimate(angle, Min(Milli(largest.area, image_area), One))

\* len(np.arange(start, stop, step)) for step > 0.
ArangeLen(start, stop, step) ==
    IF stop <= start THEN 0 ELSE (stop - start + step - 1) \div step

\* angles = np.arange(-10, 10, 0.5)
ProjAngles ==
    [i \in 1..ArangeLen(Deg(-10), Deg(10), 50) |-> Deg(-10) + 50 * (i - 1)]

\* np.argmax: the first index of the largest value.
ArgMax(v) ==
    CHOOSE i \in 1..Len(v) :
        /\ \A j \in 1..Len(v) : v[j] <= v[i]
        /\ \A j \in 1..(i - 1) : v[j] < v[i]

\* The confidence without "min(..., 1.0)".
detect_angle_by_projection_unclamped(variances) ==
    LET max_idx == ArgMax(variances)
        n == Len(variances)
        total == SumSeq(variances)
    IN Estimate(ProjAngles[max_idx],
                IF total > 0 THEN Milli(n * variances[max_idx] - total, total)
                ELSE 0)

\* variances[i] is np.var of the row projection at ProjAngles[i].
detect_angle_by_projection(variances) ==
    LET max_idx == ArgMax(variances)
        max_variance == variances[max_idx]
        n == Len(variances)
        total == SumSeq(variances)          \* mean_variance = total / n
        confidence == IF total > 0
                      THEN Min(Milli(n * max_variance - total, total), One)
                      ELSE 0
    IN Estimate(ProjAngles[max_idx], confidence)

\* "if angle < -45: angle += 90 / elif angle > 45: angle -= 90"
NormalizeLineAngle(angle) ==
    IF angle < Deg(-45) THEN angle + Deg(90)
    ELSE IF angle > Deg(45) THEN angle - Deg(90)
    ELSE angle

\* Insertion of x into an ascending sequence.
RECURSIVE InsertAsc(_, _)
InsertAsc(x, s) ==
    IF s = <<>> THEN <<x>>
    ELSE IF x <= Head(s) THEN <<x>> \o s
    ELSE <<Head(s)>> \o InsertAsc(x, Tail(s))

RECURSIVE SortAsc(_)
SortAsc(s) == IF s = <<>> THEN <<>> ELSE InsertAsc(Head(s), SortAsc(Tail(s)))

\* np.median of a non-empty sequence (the mean of the two middle values of
\* an even number of them, rounded down to 1/100 degree).
Median(s) ==
    LET t == SortAsc(s)
        n == Len(t)
    IN IF n % 2 = 1 THEN t[(n + 1) \div 2]
       ELSE (t[n \div 2] + t[n \div 2 + 1]) \div 2

\* np.std (population): sqrt(n * sum(x^2) - sum(x)^2) / n, rounded down.
Std(s) ==
    LET n == Len(s)
        sq == [i \in 1..n |-> s[i] * s[i]]
    IN ISqrt(n * SumSeq(sq) - SumSeq(s) * SumSeq(s)) \div n

\* lines is [none |-> lines is None, raw |-> the segments' atan2 angles].
detect_angle_by_lines(lines) ==
    IF lines.none \/ Len(lines.raw) = 0 THEN Abstain
    ELSE LET angles == [i \in 1..Len(lines.raw) |-> NormalizeLineAngle(lines.raw[i])]
             angle_std == Std(angles)
         IN Estimate(Median(angles), Max(0, One - Milli(angle_std, Deg(45))))

\* A plain mean of the three angles.
FuseUnweighted(e1, e2, e3) ==
    LET total_conf == e1.conf + e2.conf + e3.conf
    IN IF total_conf > 0
       THEN [angle |-> Frac(e1.angle + e2.angle + e3.angle, 3),
             conf |-> Frac(total_conf, 3)]
       ELSE [angle |-> Frac(0, 1), conf |-> Frac(0, 1)]

\* detect_angle_combined, after the three estimators: the weighted angle is
\* the exact fraction, the confidence total_conf / 3.
Fuse(e1, e2, e3) ==
    LET total_conf == e1.conf + e2.conf + e3.conf
    IN IF total_conf > 0
       THEN [angle |-> Frac(e1.angle * e1.conf + e2.angle * e2.conf
                              + e3.angle * e3.conf, total_conf),
             conf |-> Frac(total_conf, 3)]
       ELSE [angle |-> Frac(0, 1), conf |-> Frac(0, 1)]

\* A single estimator's result in the shape of Fuse's.
Single(e) == [angle |-> Frac(e.angle, 1), conf |-> Frac(e.conf, 1)]

(***************************************************************************)
(* The principal-axis estimators: detect_angle_by_pca and                  *)
(* SimpleRotationDetector.predict.  points is the number of edge points,   *)
(* raw is degrees(arctan2(components[0][0], components[0][1])), evr the    *)
(* pair explained_variance_ratio_ in 1/1000.                               *)
(***************************************************************************)
FoldPrincipalAngle(angle_deg) ==
    IF angle_deg > Deg(45) THEN angle_deg - Deg(90)
    ELSE IF angle_deg < Deg(-45) THEN angle_deg + Deg(90)
    ELSE angle_deg

\* The guard one point too low.
detect_angle_by_pca_low_guard(points, raw, evr) ==
    IF points < MinEdgePoints - 1 THEN Abstain
    ELSE Estimate(FoldPrincipalAngle(raw), Milli(evr[1], evr[1] + evr[2]))

detect_angle_by_pca(points, raw, evr) ==
    IF points < MinEdgePoints THEN Abstain
    ELSE Estimate(FoldPrincipalAngle(raw), Milli(evr[1], evr[1] + evr[2]))

predict(available, points, raw, evr) ==
    IF ~available THEN Abstain
    ELSE IF points < MinEdgePoints THEN Abstain
    ELSE Estimate(FoldPrincipalAngle(raw), Milli(evr[1], evr[1] + evr[2]))

(***************************************************************************)
(* State.                                                                  *)
(***************************************************************************)
VARIABLES
    prog,      \* the program under way
    pc,        \* its position
    arg,       \* its arguments
    image,     \* the input image
    lib,       \* what the library calls returned so far
    ran,       \* the estimators that have returned
    est,       \* their estimates
    fused,     \* the (angle, confidence) handed to the rotator and reported
    rot,       \* the rotate helper's result
    angle,     \* full_angle_scan: the angle the sweep has come to
    results,   \* full_angle_scan: the statistics appended so far;
               \* the enhancement pipeline: the outputs of its steps so far;
               \* bresenham_line: the points appended so far;
               \* detect_blank_separators: blank_regions;
               \* Pipeline.run: the results of the steps executed
    best,      \* display_results: the entry it returned
    written,   \* the image files written with cv2.imwrite so far
    loc,       \* the local variables of the function under way
    viz,       \* visualize_best_angle: its scan_count and blank_count
    status     \* how the program stands: "running", or the way it ended

scanVars == <<angle, results, best, viz, status>>
vars == <<prog, pc, arg, image, lib, ran, est, fused, rot, angle, results,
          best, written, loc, viz, status>>

NoLib == [contours |-> <<>>, variances |-> <<>>,
          lines |-> [none |-> TRUE, raw |-> <<>>],
          available |-> TRUE, points |-> 0, raw |-> 0, evr |-> <<One, 0>>]
NoEst == [contours |-> Abstain, projection |-> Abstain, lines |-> Abstain,
          pca |-> Abstain]
NoFused == [angle |-> Frac(0, 1), conf |-> Frac(0, 1)]
NoRot == [kind |-> "none", matrix |-> FALSE, matAngle |-> Frac(0, 1),
          img |-> NoImage]
NoStats == [angle |-> 0, scan_lines |-> 0, blank_lines |-> 0,
            blank_rate |-> Frac(0, 1), total_pixels |-> 0, white_pixels |-> 0,
            white_pixel_rate |-> Frac(0, 1)]
NoViz == [scan_count |-> 0, blank_count |-> 0]
NoLoc == <<>>
NoEstimation ==
    /\ lib = NoLib /\ ran = {} /\ est = NoEst /\ fused = NoFused /\ rot = NoRot
    /\ written = {} /\ loc = NoLoc
NoScan ==
    angle = 0 /\ results = <<>> /\ best = NoStats /\ viz = NoViz

(***************************************************************************)
(* What the library calls can return.                                      *)
(***************************************************************************)
\* cv2.minAreaRect's angle, in the range [-90, 0) the code assumes.
RectAngles == {Deg(-90), Deg(-78), Deg(-45), Deg(-10)}

\* A contour of a w x h image encloses at most (w - 1) * (h - 1) pixels.
Contours(img) ==
    {[area |-> a, rect |-> r] : a \in 0..((img.w - 1) * (img.h - 1)), r \in RectAngles}

ContourLists(img) ==
    {<<>>} \cup {<<c>> : c \in Contours(img)}
           \cup {<<[area |-> 0, rect |-> Deg(-90)], c>> : c \in Contours(img)}

\* Variances flat at base, raised by bump at one angle.
VarianceLists ==
    LET n == Len(ProjAngles)
    IN {[i \in 1..n |-> IF i = peak THEN base + bump ELSE base] :
           peak \in {1, n \div 2 + 1, n}, base \in {0, 10}, bump \in 0..MaxVar}

\* cv2.HoughLinesP: None, or segments, given by their atan2 angles.  It
\* lists the left end of a segment first (the upper end of a vertical one),
\* so the angles lie in [-90, 90].
LineResults ==
    {[none |-> TRUE, raw |-> <<>>], [none |-> FALSE, raw |-> <<>>]} \cup
    {[none |-> FALSE, raw |-> r] :
        r \in {<<0>>, <<Deg(1), Deg(19)>>, <<Deg(-45), Deg(45)>>,
               <<Deg(-90), Deg(90)>>, <<Deg(80)>>,
               <<Deg(-30), Deg(2), Deg(60)>>}}

Methods == {"contours", "projection", "lines", "combined"}

(***************************************************************************)
(* preprocess_opencv.preprocess_image(image, method).                      *)
(***************************************************************************)
InitOpenCV ==
    /\ prog = "opencv"
    /\ arg \in [method : Methods]
    /\ image \in TestImages
    /\ pc = IF arg.method = "combined" THEN "contours" ELSE arg.method
    /\ NoEstimation /\ NoScan /\ status = "running"

\* After one estimator: the next of detect_angle_combined, or the rotation.
AfterEstimator(next, e) ==
    IF arg.method = "combined"
    THEN pc' = next /\ fused' = fused
    ELSE pc' = "rotate" /\ fused' = Single(e)

DetectContours ==
    /\ prog = "opencv" /\ pc = "contours"
    /\ \E cs \in ContourLists(image) :
         LET e == detect_angle_by_contours(image, cs)
         IN /\ lib' = [lib EXCEPT !.contours = cs]
            /\ est' = [est EXCEPT !.contours = e]
            /\ AfterEstimator("projection", e)
    /\ ran' = ran \cup {"contours"}
    /\ UNCHANGED <<prog, arg, image, written, loc, rot, scanVars>>

DetectProjection ==
    /\ prog = "opencv" /\ pc = "projection"
    /\ \E v \in VarianceLists :
         LET e == detect_angle_by_projection(v)
         IN /\ lib' = [lib EXCEPT !.variances = v]
            /\ est' = [est EXCEPT !.projection = e]
            /\ AfterEstimator("lines", e)
    /\ ran' = ran \cup {"projection"}
    /\ UNCHANGED <<prog, arg, image, written, loc, rot, scanVars>>

DetectLines ==
    /\ prog = "opencv" /\ pc = "lines"
    /\ \E l \in LineResults :
         LET e == detect_angle_by_lines(l)
         IN /\ lib' = [lib EXCEPT !.lines = l]
            /\ est' = [est EXCEPT !.lines = e]
            /\ AfterEstimator("combine", e)
    /\ ran' = ran \cup {"lines"}
    /\ UNCHANGED <<prog, arg, image, written, loc, rot, scanVars>>

Combine ==
    /\ prog = "opencv" /\ pc = "combine"
    /\ fused' = Fuse(est.contours, est.projection, est.lines)
    /\ pc' = "rotate"
    /\ UNCHANGED <<prog, arg, image, written, loc, lib, ran, est, rot, scanVars>>

RotateOpenCV ==
    /\ prog = "opencv" /\ pc = "rotate"
    /\ rot' = rotate_image_opencv(image, fused.angle)
    /\ pc' = "enhance"
    /\ UNCHANGED <<prog, arg, image, written, loc, lib, ran, est, fused, scanVars>>

\* enhance_image(rotated): a new image; its pixels are not computed.
Enhance ==
    /\ prog = "opencv" /\ pc = "enhance"
    /\ pc' = "done"
    /\ UNCHANGED <<prog, arg, image, written, loc, lib, ran, est, fused, rot, scanVars>>

(***************************************************************************)
(* detect_angle_by_pca(image) and SimpleRotationDetector().predict(image). *)
(***************************************************************************)
PointCounts == {0, MinEdgePoints - 1, MinEdgePoints, MinEdgePoints + 1}
\* components_[0] points either way along the axis (which way depends on the
\* data and on the scikit-learn release), so arctan2 ranges over (-180, 180].
RawAngles == {Deg(d) : d \in -179..180}
VarianceRatios == {<<500, 500>>, <<750, 250>>, <<One, 0>>}

InitAxis ==
    /\ prog \in {"pca", "simple"}
    /\ arg = [method |-> prog]
    /\ image \in {MkImage(1, 1, "white")}
    /\ pc = "detect"
    /\ NoEstimation /\ NoScan /\ status = "running"

DetectPca ==
    /\ prog = "pca" /\ pc = "detect"
    /\ \E n \in PointCounts, raw \in RawAngles, evr \in VarianceRatios :
         /\ lib' = [lib EXCEPT !.points = n, !.raw = raw, !.evr = evr]
         /\ est' = [est EXCEPT !.pca = detect_angle_by_pca(n, raw, evr)]
    /\ ran' = ran \cup {"pca"}
    /\ pc' = "done"
    /\ UNCHANGED <<prog, arg, image, written, loc, fused, rot, scanVars>>

PredictSimple ==
    /\ prog = "simple" /\ pc = "detect"
    /\ \E av \in BOOLEAN, n \in PointCounts, raw \in RawAngles,
          evr \in VarianceRatios :
         /\ lib' = [lib EXCEPT !.available = av, !.points = n, !.raw = raw,
                                !.evr = evr]
         /\ est' = [est EXCEPT !.pca = predict(av, n, raw, evr)]
    /\ ran' = ran \cup {"pca"}
    /\ pc' = "done"
    /\ UNCHANGED <<prog, arg, image, written, loc, fused, rot, scanVars>>

Init == InitOpenCV \/ InitAxis

Next ==
    \/ DetectContours
    \/ DetectProjection
    \/ DetectLines
    \/ Combine
    \/ RotateOpenCV
    \/ Enhance
    \/ DetectPca
    \/ PredictSimple

Spec == Init /\ [][Next]_vars

(***************************************************************************)
(* The four rotate_image helpers, each called on its own with an image     *)
(* and an angle.                                                           *)
(***************************************************************************)
Helpers == {"hough", "pca", "dl", "opencv"}

\* Angles in 1/100 degree: zero, below and at the 0.1 degree threshold, the
\* quarter turns, and one ordinary skew.
HelperAngles ==
    {Frac(n, 1) : n \in {0, 5, -5, 9, RotateEpsilon, 50, Deg(2), Deg(90),
                         Deg(180), Deg(270)}}

InitRotate ==
    /\ prog = "rotate"
    /\ arg \in [helper : Helpers, angle : HelperAngles]
    /\ image \in TestImages
    /\ pc = "rotate"
    /\ NoEstimation /\ NoScan /\ status = "running"

RotateWith(helper, result) ==
    /\ prog = "rotate" /\ pc = "rotate" /\ arg.helper = helper
    /\ rot' = result
    /\ pc' = "done"
    /\ UNCHANGED <<prog, arg, image, written, loc, lib, ran, est, fused, scanVars>>

HoughRotate == RotateWith("hough", rotate_image_hough(image, arg.angle))
PcaRotate == RotateWith("pca", rotate_image_pca(image, arg.angle))
DlRotate == RotateWith("dl", rotate_image_dl(image, arg.angle))
OpenCVRotate == RotateWith("opencv", rotate_image_opencv(image, arg.angle))

NextRot ==
    \/ HoughRotate
    \/ PcaRotate
    \/ DlRotate
    \/ OpenCVRotate

SpecRot == InitRotate /\ [][NextRot]_vars

(***************************************************************************)
(* full_angle_scan.py: the blank-line scan.  Scan angles are whole         *)
(* degrees; np.cos and np.sin are tabulated in millionths for the angles   *)
(* the sweeps below visit and for those angles plus 90.  No endpoint of a  *)
(* scan line at these angles lies within a rounding error of a whole       *)
(* pixel, so int() of the tabulated product is int() of the float product. *)
(***************************************************************************)
MaxScanSide == 3   \* longest side of a scanned image, in pixels

Micro == 1000000
TrigMicro ==
    (-45 :> <<707107, -707107>>) @@ (-5 :> <<996195, -87156>>) @@
    (-4 :> <<997564, -69756>>) @@ (-3 :> <<998630, -52336>>) @@
    (-2 :> <<999391, -34899>>) @@ (-1 :> <<999848, -17452>>) @@
    (0 :> <<1000000, 0>>) @@ (1 :> <<999848, 17452>>) @@
    (2 :> <<999391, 34899>>) @@ (3 :> <<998630, 52336>>) @@
    (4 :> <<997564, 69756>>) @@ (5 :> <<996195, 87156>>) @@
    (45 :> <<707107, 707107>>) @@ (85 :> <<87156, 996195>>) @@
    (86 :> <<69756, 997564>>) @@ (87 :> <<52336, 998630>>) @@
    (88 :> <<34899, 999391>>) @@ (89 :> <<17452, 999848>>) @@
    (90 :> <<0, 1000000>>) @@ (91 :> <<-17452, 999848>>) @@
    (92 :> <<-34899, 999391>>) @@ (93 :> <<-52336, 998630>>) @@
    (94 :> <<-69756, 997564>>) @@ (95 :> <<-87156, 996195>>) @@
    (135 :> <<-707107, 707107>>)

CosMicro(d) == TrigMicro[d][1]
SinMicro(d) == TrigMicro[d][2]

BlankFloor == 220              \* "if min_pixel >= 220"

\* "if x == x1 and y == y1: break"
AtEnd_column_reached(x, y, x1, y1) == x = x1
AtEnd(x, y, x1, y1) == x = x1 /\ y = y1

\* The rest of one turn of "while True": e2 = 2 * err, then the two steps.
Advance_one_axis(x, y, err, dx, dy, sx, sy) ==
    LET e2 == 2 * err
        stepX == e2 > -dy
        stepY == ~stepX /\ e2 < dx
    IN [x |-> IF stepX THEN x + sx ELSE x,
        y |-> IF stepY THEN y + sy ELSE y,
        err |-> err - (IF stepX THEN dy ELSE 0) + (IF stepY THEN dx ELSE 0)]
Advance(x, y, err, dx, dy, sx, sy) ==
    LET e2 == 2 * err
        stepX == e2 > -dy
        stepY == e2 < dx
    IN [x |-> IF stepX THEN x + sx ELSE x,
        y |-> IF stepY THEN y + sy ELSE y,
        err |-> err - (IF stepX THEN dy ELSE 0) + (IF stepY THEN dx ELSE 0)]

RECURSIVE BresenhamFrom(_, _, _, _, _, _, _, _, _)
BresenhamFrom(x, y, err, x1, y1, dx, dy, sx, sy) ==
    IF AtEnd(x, y, x1, y1)
    THEN <<<<x, y>>>>
    ELSE LET n == Advance(x, y, err, dx, dy, sx, sy)
         IN <<<<x, y>>>> \o
            BresenhamFrom(n.x, n.y, n.err, x1, y1, dx, dy, sx, sy)

\* The locals bresenham_line sets before its loop.
WalkLocals(x0, y0, x1, y1) ==
    [dx |-> Abs(x1 - x0), dy |-> Abs(y1 - y0),
     sx |-> IF x0 < x1 THEN 1 ELSE -1,
     sy |-> IF y0 < y1 THEN 1 ELSE -1,
     err |-> Abs(x1 - x0) - Abs(y1 - y0),
     x |-> x0, y |-> y0]

bresenham_line(x0, y0, x1, y1) ==
    LET l == WalkLocals(x0, y0, x1, y1)
    IN BresenhamFrom(l.x, l.y, l.err, x1, y1, l.dx, l.dy, l.sx, l.sy)

\* diagonal = int(np.sqrt(w*w + h*h))
Diagonal(img) == ISqrt(img.w * img.w + img.h * img.h)

\* range(-diagonal, diagonal, scan_step), as a sequence.
Offsets(img, scan_step) ==
    LET d == Diagonal(img)
    IN [k \in 1..((2 * d - 1) \div scan_step + 1) |-> (k - 1) * scan_step - d]

\* The in-image points of the scan line at one offset, in walking order.
ValidPoints(img, a, offset) ==
    LET d == Diagonal(img)
        mid_x == (img.w \div 2) * Micro + offset * CosMicro(a + 90)
        mid_y == (img.h \div 2) * Micro + offset * SinMicro(a + 90)
        x1 == TruncDiv(mid_x - d * CosMicro(a), Micro)
        y1 == TruncDiv(mid_y - d * SinMicro(a), Micro)
        x2 == TruncDiv(mid_x + d * CosMicro(a), Micro)
        y2 == TruncDiv(mid_y + d * SinMicro(a), Micro)
        InImage(p) == 0 <= p[1] /\ p[1] < img.w /\ 0 <= p[2] /\ p[2] < img.h
    IN SelectSeq(bresenham_line(x1, y1, x2, y2), InImage)

\* gray[y, x]
Gray(img, p) == img.px[p[2] + 1][p[1] + 1]

PixelValues(img, points) == [i \in 1..Len(points) |-> Gray(img, points[i])]

RECURSIVE MinSeq(_)
MinSeq(s) ==
    IF Len(s) = 1 THEN s[1] ELSE Min(s[1], MinSeq(Tail(s)))

WhiteCount(pixel_values, white_threshold) ==
    Cardinality({i \in 1..Len(pixel_values) : pixel_values[i] >= white_threshold})

IsBlankLine_mostly_bright(pixel_values) ==
    2 * WhiteCount(pixel_values, BlankFloor) > Len(pixel_values)
IsBlankLine(pixel_values) ==
    MinSeq(pixel_values) >= BlankFloor

\* The lists one pass over the offsets builds: the pixel values of each
\* counted line ("if len(valid_points) == 0: continue" drops the others).
CountedLines(img, a, scan_step) ==
    LET offs == Offsets(img, scan_step)
        all == [k \in 1..Len(offs) |-> PixelValues(img, ValidPoints(img, a, offs[k]))]
        Counted(pixel_values) == Len(pixel_values) > 0
    IN SelectSeq(all, Counted)

\* "(part / whole * 100) if whole > 0 else 0"; Rate_fraction is the
\* quotient without "* 100".
Rate_fraction(part, whole) == IF whole > 0 THEN Frac(part, whole) ELSE Frac(0, 1)
Rate(part, whole) == IF whole > 0 THEN Frac(part * 100, whole) ELSE Frac(0, 1)

scan_at_angle_threshold_floor(img, a, scan_step, white_threshold) ==
    LET lines == CountedLines(img, a, scan_step)
        blank_lines == Cardinality({k \in 1..Len(lines) :
                                       MinSeq(lines[k]) >= white_threshold})
        total == SumSeq([k \in 1..Len(lines) |-> Len(lines[k])])
        white == SumSeq([k \in 1..Len(lines) |-> WhiteCount(lines[k], white_threshold)])
    IN [angle |-> a,
        scan_lines |-> Len(lines),
        blank_lines |-> blank_lines,
        blank_rate |-> Rate(blank_lines, Len(lines)),
        total_pixels |-> total,
        white_pixels |-> white,
        white_pixel_rate |-> Rate(white, total)]
scan_at_angle(img, a, scan_step, white_threshold) ==
    LET lines == CountedLines(img, a, scan_step)
        blank_lines == Cardinality({k \in 1..Len(lines) : IsBlankLine(lines[k])})
        total == SumSeq([k \in 1..Len(lines) |-> Len(lines[k])])
        white == SumSeq([k \in 1..Len(lines) |-> WhiteCount(lines[k], white_threshold)])
    IN [angle |-> a,
        scan_lines |-> Len(lines),
        blank_lines |-> blank_lines,
        blank_rate |-> Rate(blank_lines, Len(lines)),
        total_pixels |-> total,
        white_pixels |-> white,
        white_pixel_rate |-> Rate(white, total)]

\* sorted(results, key=lambda x: x['blank_rate'], reverse=True): stable, so
\* entries of equal key keep the order of the sweep.
SortKey_white_pixel_rate(stats) == stats.white_pixel_rate
SortKey(stats) == stats.blank_rate

RECURSIVE InsertByKey(_, _)
InsertByKey(x, sorted) ==
    IF sorted = <<>> THEN <<x>>
    ELSE IF FracLt(SortKey(Head(sorted)), SortKey(x))
         THEN <<x>> \o sorted
         ELSE <<Head(sorted)>> \o InsertByKey(x, Tail(sorted))

RECURSIVE SortedResults(_)
SortedResults(rs) ==
    IF rs = <<>> THEN <<>>
    ELSE InsertByKey(rs[Len(rs)], SortedResults(SubSeq(rs, 1, Len(rs) - 1)))

\* display_results returns sorted_results[0]; on an empty list that
\* subscript raises IndexError.
display_results_last_of_equals(rs) ==
    IF rs = <<>>
    THEN [raised |-> "IndexError", best |-> NoStats]
    ELSE LET sorted == SortedResults(rs)
             top == {i \in 1..Len(sorted) :
                       FracEq(SortKey(sorted[i]), SortKey(sorted[1]))}
         IN [raised |-> "", best |-> sorted[Cardinality(top)]]
display_results(rs) ==
    IF rs = <<>>
    THEN [raised |-> "IndexError", best |-> NoStats]
    ELSE [raised |-> "", best |-> SortedResults(rs)[1]]

\* visualize_best_angle walks the lines of the best angle again and ends by
\* printing blank_count / scan_count.
visualize_best_angle(img, a, scan_step) ==
    LET lines == CountedLines(img, a, scan_step)
        blank_count == Cardinality({k \in 1..Len(lines) : IsBlankLine(lines[k])})
    IN [raised |-> IF Len(lines) = 0 THEN "ZeroDivisionError" ELSE "",
        viz |-> [scan_count |-> Len(lines), blank_count |-> blank_count],
        \* output_path.replace('.', '_blanks.') and '_blanks_with_scans.',
        \* both written before the closing statistics are printed
        wrote |-> {"_blanks", "_blanks_with_scans"}]

\* Scanned pages: a near-white background, bare or with ink: one pixel or
\* one whole row, black or just under the floor.
Backgrounds == {BlankFloor, White}
Inks == {0, BlankFloor - 1}

ScanImage(w, h, bg, ink, at) ==
    [w |-> w, h |-> h,
     px |-> [y \in 1..h |-> [x \in 1..w |->
               IF at.y = y /\ (at.x = x \/ at.x = 0) THEN ink ELSE bg]]]

ScanImages ==
    {ScanImage(w, h, bg, ink, [x |-> x, y |-> y]) :
        w \in 1..MaxScanSide, h \in 1..MaxScanSide, bg \in Backgrounds,
        ink \in Inks, x \in 0..MaxScanSide, y \in 0..MaxScanSide}

\* --angle-start, --angle-end, --angle-step
Sweeps ==
    {[angle_start |-> -45, angle_end |-> 45, angle_step |-> 45],
     [angle_start |-> -1, angle_end |-> 1, angle_step |-> 1],
     [angle_start |-> 0, angle_end |-> 0, angle_step |-> 1],
     [angle_start |-> 5, angle_end |-> -5, angle_step |-> 1]}

\* --scan-step: every pixel, every other, and the command line's default.
ScanSteps == {1, 2, 5}

\* --white-threshold: the defaults of the two scanning tools.
WhiteThresholds == {199, 240}

InitScan ==
    /\ prog = "scan"
    /\ \E sweep \in Sweeps, step \in ScanSteps, wt \in WhiteThresholds,
          v \in BOOLEAN :
         arg = [sweep |-> sweep, scan_step |-> step, white_threshold |-> wt,
                visualize |-> v]
    /\ image \in ScanImages
    /\ pc = "sweep"
    /\ angle = arg.sweep.angle_start
    /\ results = <<>> /\ best = NoStats /\ viz = NoViz
    /\ NoEstimation /\ status = "running"

estVars == <<lib, ran, est, fused, rot>>

\* One turn of "while angle <= angle_end".
ScanAngle ==
    /\ prog = "scan" /\ pc = "sweep"
    /\ angle <= arg.sweep.angle_end
    /\ results' = Append(results, scan_at_angle(image, angle, arg.scan_step,
                                                arg.white_threshold))
    /\ angle' = angle + arg.sweep.angle_step
    /\ UNCHANGED <<prog, pc, arg, image, written, loc, best, viz, status, estVars>>

\* The loop ends and full_angle_scan returns the list.
SweepReturn ==
    /\ prog = "scan" /\ pc = "sweep"
    /\ ~(angle <= arg.sweep.angle_end)
    /\ pc' = "display"
    /\ UNCHANGED <<prog, arg, image, written, loc, angle, results, best, viz, status, estVars>>

\* main: best_result = display_results(results)
DisplayResults ==
    /\ prog = "scan" /\ pc = "display"
    /\ LET r == display_results(results)
       IN /\ best' = r.best
          /\ IF r.raised # ""
             THEN pc' = "done" /\ status' = r.raised
             ELSE IF arg.visualize
                  THEN pc' = "visualize" /\ status' = status
                  ELSE pc' = "done" /\ status' = "returned"
    /\ UNCHANGED <<prog, arg, image, written, loc, angle, results, viz, estVars>>

\* main: if args.visualize: visualize_best_angle(image, best_result['angle'], ...)
VisualizeBestAngle ==
    /\ prog = "scan" /\ pc = "visualize"
    /\ LET r == visualize_best_angle(image, best.angle, arg.scan_step)
       IN /\ viz' = r.viz
          /\ written' = written \cup r.wrote
          /\ status' = IF r.raised # "" THEN r.raised ELSE "returned"
    /\ pc' = "done"
    /\ UNCHANGED <<prog, arg, image, angle, results, best, estVars, loc>>

NextScan ==
    \/ ScanAngle
    \/ SweepReturn
    \/ DisplayResults
    \/ VisualizeBestAngle

SpecScan == InitScan /\ [][NextScan]_vars

(***************************************************************************)
(* The loop of full_angle_scan with a fractional --angle-step.  The angles *)
(* are Python floats (argparse type=float): a float of magnitude in        *)
(* [1/2, 8) that stands for n tenths of a degree is kept as the pair       *)
(* (n, e), its exact value being n/10 + e * 2^-55 / 5.  The float 0.1 is   *)
(* the pair (1, 1), and whole numbers have e = 0.  An addition is the      *)
(* exact sum rounded to the 53-bit grid of its binade, ties to even.       *)
(***************************************************************************)
MaxSweepAngle == 3   \* largest |angle_start|, |angle_end| of a sweep

\* E with 2^E <= |n/10 + e * 2^-55 / 5| < 2^(E+1), for a magnitude in [1/2, 8).
Binade(n, e) ==
    LET a == Abs(n)
        s == IF n > 0 THEN e ELSE -e
        AtLeast(k) == a > 10 * k \/ (a = 10 * k /\ s >= 0)
    IN IF AtLeast(4) THEN 2 ELSE IF AtLeast(2) THEN 1
       ELSE IF AtLeast(1) THEN 0 ELSE -1

\* x + step in float64.  In units of 2^-55 / 5 the grid of binade E has
\* spacing 5 * 2^(E+3), and n tenths are n * 2^54 units, which leaves
\* 2^(E+3) * (n * 2^(51-E) mod 5) modulo the spacing.
FloatAdd(x, step) ==
    LET n == x.n + step.n
        t == x.e + step.e
        E == Binade(n, t)
        P == 2 ^ (E + 3)
        G == 5 * P
        c5 == CASE E = -1 -> 1 [] E = 0 -> 3 [] E = 1 -> 4 [] E = 2 -> 2
        c10 == CASE E = -1 -> 6 [] E = 0 -> 8 [] E = 1 -> 4 [] E = 2 -> 2
        r == (P * ((n * c5) % 5) + t) % G
        down == [n |-> n, e |-> t - r]
        up == [n |-> n, e |-> t + G - r]
        downIsEven == (P * ((n * c10) % 10) + t - r) % (2 * G) = 0
    IN IF 2 * r < G THEN down
       ELSE IF 2 * r > G THEN up
       ELSE IF downIsEven THEN down ELSE up

\* "angle <= angle_end", angle_end a whole number.
FloatLe(x, whole) == x.n < 10 * whole \/ (x.n = 10 * whole /\ x.e <= 0)

\* --angle-step 0.1, 1 and 2, and the whole-number ends of a sweep that
\* stays on one side of zero.
AngleSteps == {[n |-> 1, e |-> 1], [n |-> 10, e |-> 0], [n |-> 20, e |-> 0]}
SweepEnds == (1..MaxSweepAngle) \cup {-k : k \in 1..MaxSweepAngle}

InitSweep ==
    /\ prog = "sweep"
    /\ \E a \in SweepEnds, b \in SweepEnds, step \in AngleSteps :
         /\ a * b > 0
         /\ arg = [angle_start |-> a, angle_end |-> b, angle_step |-> step]
    /\ image = MkImage(1, 1, "white")
    /\ pc = "sweep"
    /\ angle = [n |-> 10 * arg.angle_start, e |-> 0]
    /\ results = <<>> /\ best = NoStats /\ viz = NoViz
    /\ NoEstimation /\ status = "running"

\* One turn of "while angle <= angle_end".  The loop reads nothing of what
\* scan_at_angle returns, and the counts of a scan at a fractional angle
\* are left at their initial values.
SweepAngle ==
    /\ prog = "sweep" /\ pc = "sweep"
    /\ FloatLe(angle, arg.angle_end)
    /\ results' = Append(results, [NoStats EXCEPT !.angle = angle])
    /\ angle' = FloatAdd(angle, arg.angle_step)
    /\ UNCHANGED <<prog, pc, arg, image, written, loc, best, viz, status,
                   estVars>>

\* The loop ends and full_angle_scan returns the list.
SweepDone ==
    /\ prog = "sweep" /\ pc = "sweep"
    /\ ~FloatLe(angle, arg.angle_end)
    /\ pc' = "done" /\ status' = "returned"
    /\ UNCHANGED <<prog, arg, image, written, loc, angle, results, best, viz,
                   estVars>>

NextSweep ==
    \/ SweepAngle
    \/ SweepDone

SpecSweep == InitSweep /\ [][NextSweep]_vars

(***************************************************************************)
(* bresenham_line as a loop: one action per turn of "while True", for all  *)
(* end points within MaxCoord of the origin.  The loop runs on until it    *)
(* breaks, hence the fairness condition.                                   *)
(***************************************************************************)
MaxCoord == 2    \* largest |coordinate| of an end point

Coords == -MaxCoord..MaxCoord

InitWalk ==
    /\ prog = "bresenham_line"
    /\ \E x0 \in Coords, y0 \in Coords, x1 \in Coords, y1 \in Coords :
         arg = [x0 |-> x0, y0 |-> y0, x1 |-> x1, y1 |-> y1]
    /\ loc = WalkLocals(arg.x0, arg.y0, arg.x1, arg.y1)
    /\ pc = "loop"
    /\ image = NoImage
    /\ lib = NoLib /\ ran = {} /\ est = NoEst /\ fused = NoFused /\ rot = NoRot
    /\ written = {}
    /\ NoScan /\ status = "running"

\* A turn that appends the point and goes on.
WalkOn ==
    /\ prog = "bresenham_line" /\ pc = "loop"
    /\ ~AtEnd(loc.x, loc.y, arg.x1, arg.y1)
    /\ results' = Append(results, <<loc.x, loc.y>>)
    /\ loc' = LET n == Advance(loc.x, loc.y, loc.err, loc.dx, loc.dy,
                               loc.sx, loc.sy)
              IN [loc EXCEPT !.x = n.x, !.y = n.y, !.err = n.err]
    /\ UNCHANGED <<prog, pc, arg, image, written, angle, best, viz, status,
                   estVars>>

\* The turn that appends the point and breaks; the list is returned.
WalkBreak ==
    /\ prog = "bresenham_line" /\ pc = "loop"
    /\ AtEnd(loc.x, loc.y, arg.x1, arg.y1)
    /\ results' = Append(results, <<loc.x, loc.y>>)
    /\ pc' = "done" /\ status' = "returned"
    /\ UNCHANGED <<prog, arg, image, written, loc, angle, best, viz, estVars>>

NextWalk ==
    \/ WalkOn
    \/ WalkBreak

SpecWalk == InitWalk /\ [][NextWalk]_vars /\ WF_vars(NextWalk)

(***************************************************************************)
(* The scan tool on the images of side up to SmallSide.                    *)
(***************************************************************************)
SmallSide == 2    \* longest side of these images, in pixels

InitSmall == InitScan /\ image.w <= SmallSide /\ image.h <= SmallSide

SpecSmall == InitSmall /\ [][NextScan]_vars

(***************************************************************************)
(* The sweep over -5..5 degrees of a zero-skew page: text lines of         *)
(* thickness t, gaps of g white rows between and around them, a white      *)
(* margin of m columns at each side.                                       *)
(***************************************************************************)
MaxTextLines == 2    \* most text lines on a page

Page(w, n, t, g, m) ==
    [w |-> w, h |-> g + n * (t + g),
     px |-> [y \in 1..(g + n * (t + g)) |-> [x \in 1..w |->
               IF y > g /\ ((y - g - 1) % (t + g)) < t /\ x > m /\ x <= w - m
               THEN 0 ELSE White]]]

Pages ==
    {Page(w, n, t, g, m) :
        w \in {8, 12}, n \in 2..MaxTextLines, t \in 1..2, g \in 1..2, m \in 0..1}

InitPage ==
    /\ prog = "scan"
    /\ \E step \in ScanSteps, wt \in WhiteThresholds, v \in BOOLEAN :
         arg = [sweep |-> [angle_start |-> -5, angle_end |-> 5, angle_step |-> 1],
                scan_step |-> step, white_threshold |-> wt, visualize |-> v]
    /\ image \in Pages
    /\ pc = "sweep"
    /\ angle = arg.sweep.angle_start
    /\ results = <<>> /\ best = NoStats /\ viz = NoViz
    /\ NoEstimation /\ status = "running"

SpecPage == InitPage /\ [][NextScan]_vars

(***************************************************************************)
(* preprocess_hough.py: detect_blank_separators, the branch for a nearly   *)
(* horizontal angle.  Coordinates are counted from 0 as in the code.  The  *)
(* image it returns, the input with the regions drawn on it, is not        *)
(* modelled; blank_regions is.                                             *)
(***************************************************************************)
MaxRows == 5            \* most rows of a scanned page

MinRegionHeight == 3    \* "if region_height >= 3"

\* "white_count / w > 0.9"
RowIsBlank(row, white_threshold) ==
    10 * WhiteCount(row, white_threshold) > 9 * Len(row)

\* "for x in range(w)" over the middle row and the check of the last run;
\* start = -1 stands for None.
RECURSIVE WhiteRunsFrom(_, _, _, _, _)
WhiteRunsFrom(row, x, start, white_threshold, min_blank_length) ==
    LET Run(x_end) ==
            IF start # -1 /\ x_end - start >= min_blank_length
            THEN <<[x_start |-> start, x_end |-> x_end, length |-> x_end - start]>>
            ELSE <<>>
    IN IF x = Len(row) THEN Run(Len(row))
       ELSE IF row[x + 1] >= white_threshold
            THEN WhiteRunsFrom(row, x + 1, IF start = -1 THEN x ELSE start,
                               white_threshold, min_blank_length)
            ELSE Run(x) \o WhiteRunsFrom(row, x + 1, -1, white_threshold,
                                         min_blank_length)

\* The regions appended when row y ends the blank rows from region_start.
ClosedRegion_any_height(img, region_start, y, white_threshold, min_blank_length) ==
    LET region_middle == region_start + (y - region_start) \div 2
        runs == WhiteRunsFrom(img.px[region_middle + 1], 0, -1,
                              white_threshold, min_blank_length)
    IN [i \in 1..Len(runs) |->
           [type |-> "horizontal", y |-> region_middle,
            y_start |-> region_start, y_end |-> y,
            x_start |-> runs[i].x_start, x_end |-> runs[i].x_end,
            length |-> runs[i].length]]
ClosedRegion(img, region_start, y, white_threshold, min_blank_length) ==
    LET region_height == y - region_start
        region_middle == region_start + region_height \div 2
        runs == WhiteRunsFrom(img.px[region_middle + 1], 0, -1,
                              white_threshold, min_blank_length)
    IN IF region_height >= MinRegionHeight
       THEN [i \in 1..Len(runs) |->
               [type |-> "horizontal", y |-> region_middle,
                y_start |-> region_start, y_end |-> y,
                x_start |-> runs[i].x_start, x_end |-> runs[i].x_end,
                length |-> runs[i].length]]
       ELSE <<>>

\* "for y in range(h)" with in_blank_region and region_start.
RECURSIVE BlankRowsFrom(_, _, _, _, _, _)
BlankRowsFrom(img, y, in_blank_region, region_start, white_threshold, min_blank_length) ==
    IF y = img.h THEN <<>>
    ELSE LET is_blank == RowIsBlank(img.px[y + 1], white_threshold)
         IN IF is_blank /\ ~in_blank_region
            THEN BlankRowsFrom(img, y + 1, TRUE, y, white_threshold,
                               min_blank_length)
            ELSE IF ~is_blank /\ in_blank_region
                 THEN ClosedRegion(img, region_start, y, white_threshold,
                                   min_blank_length)
                      \o BlankRowsFrom(img, y + 1, FALSE, region_start,
                                       white_threshold, min_blank_length)
                 ELSE BlankRowsFrom(img, y + 1, in_blank_region, region_start,
                                    white_threshold, min_blank_length)

\* "if abs(angle) <= 10 or abs(angle - 180) <= 10"
NearlyHorizontal(a) == Abs(a) <= 10 \/ Abs(a - 180) <= 10

\* blank_regions of the nearly horizontal branch, and the files written.
detect_blank_separators(img, a, output_path, min_blank_length, white_threshold) ==
    [blank_regions |-> BlankRowsFrom(img, 0, FALSE, 0, white_threshold,
                                     min_blank_length),
     wrote |-> IF output_path # "" THEN {"_blanks", "_blanks_with_scans"}
               ELSE {}]

\* Rows 11 pixels wide, the narrowest in which a row with one pixel under
\* the threshold is still blank: all white, one pixel just under the
\* threshold in the middle or at the right end, and two such pixels, which
\* make the row non-blank.
SeparatorRows(white_threshold) ==
    LET w == 11
        Row(dark) == [x \in 1..w |-> IF x \in dark THEN white_threshold - 1
                                     ELSE White]
    IN {Row({}), Row({6}), Row({w}), Row({1, w})}

SeparatorPages(white_threshold) ==
    UNION {{[w |-> 11, h |-> h, px |-> px] :
               px \in [1..h -> SeparatorRows(white_threshold)]} : h \in 1..MaxRows}

\* min_blank_length: half a row, one more, and a whole row.
MinBlankLengths == {5, 6, 11}

InitBlank ==
    /\ prog = "blank_separators"
    /\ \E a \in {0, -10}, mbl \in MinBlankLengths :
         arg = [angle |-> a, output_path |-> "out.jpg",
                min_blank_length |-> mbl, white_threshold |-> 240]
    /\ image \in SeparatorPages(arg.white_threshold)
    /\ pc = "start"
    /\ NoEstimation /\ NoScan /\ status = "running"

DetectBlankSeparators ==
    /\ prog = "blank_separators" /\ pc = "start"
    /\ NearlyHorizontal(arg.angle)
    /\ LET r == detect_blank_separators(image, arg.angle, arg.output_path,
                                        arg.min_blank_length, arg.white_threshold)
       IN /\ results' = r.blank_regions
          /\ written' = written \cup r.wrote
    /\ pc' = "done" /\ status' = "returned"
    /\ UNCHANGED <<prog, arg, image, loc, angle, best, viz, estVars>>

SpecBlank == InitBlank /\ [][DetectBlankSeparators]_vars

(***************************************************************************)
(* 11_PDF_Pipeline/pipeline.py: Pipeline.run over the steps of a           *)
(* configuration.  Each step's execute catches its own exceptions and      *)
(* returns a result with a status; which status is the environment's       *)
(* choice.  loc.i is the place of the loop in config['steps'] and          *)
(* loc.saved the lists handed to save_results so far.                      *)
(***************************************************************************)
MaxSteps == 3     \* most steps in a configuration

\* The step_id values run knows, and one it does not.
KnownSteps == {"step1", "step2", "step3"}
StepIds == KnownSteps \cup {"step4"}

\* The statuses the execute method of each step class can return.
StepStatuses(step_id) ==
    CASE step_id = "step1" -> {"success", "failed"}
      [] step_id = "step2" -> {"success", "partial_success", "failed"}
      [] step_id = "step3" -> {"success", "partial", "failed"}

\* "if result['status'] == 'failed': break"
Stops_unless_success(result_status) == result_status # "success"
Stops(result_status) == result_status = "failed"

InitPipeline ==
    /\ prog = "pipeline"
    /\ \E n \in 0..MaxSteps :
         \E steps \in [1..n -> [step_id : StepIds, enabled : BOOLEAN]] :
            arg = [steps |-> steps]
    /\ loc = [i |-> 1, saved |-> <<>>]
    /\ pc = "loop"
    /\ image = NoImage
    /\ lib = NoLib /\ ran = {} /\ est = NoEst /\ fused = NoFused /\ rot = NoRot
    /\ written = {}
    /\ NoScan /\ status = "running"

\* "if not step_config.get('enabled', True): continue"
SkipDisabled ==
    /\ prog = "pipeline" /\ pc = "loop" /\ loc.i <= Len(arg.steps)
    /\ ~arg.steps[loc.i].enabled
    /\ loc' = [loc EXCEPT !.i = loc.i + 1]
    /\ UNCHANGED <<prog, pc, arg, image, written, scanVars, estVars>>

\* "else: logger.warning(...); continue"
SkipUnknown ==
    /\ prog = "pipeline" /\ pc = "loop" /\ loc.i <= Len(arg.steps)
    /\ arg.steps[loc.i].enabled
    /\ arg.steps[loc.i].step_id \notin KnownSteps
    /\ loc' = [loc EXCEPT !.i = loc.i + 1]
    /\ UNCHANGED <<prog, pc, arg, image, written, scanVars, estVars>>

\* "result = step.execute(); results.append(result)", then the break or the
\* next turn.
ExecuteStep ==
    /\ prog = "pipeline" /\ pc = "loop" /\ loc.i <= Len(arg.steps)
    /\ arg.steps[loc.i].enabled
    /\ arg.steps[loc.i].step_id \in KnownSteps
    /\ \E result_status \in StepStatuses(arg.steps[loc.i].step_id) :
         /\ results' = Append(results, [step_id |-> arg.steps[loc.i].step_id,
                                        status |-> result_status,
                                        at |-> loc.i])
         /\ IF Stops(result_status)
            THEN pc' = "save" /\ loc' = loc
            ELSE pc' = pc /\ loc' = [loc EXCEPT !.i = loc.i + 1]
    /\ UNCHANGED <<prog, arg, image, written, angle, best, viz, status, estVars>>

\* The for loop runs out of steps.
StepsExhausted ==
    /\ prog = "pipeline" /\ pc = "loop" /\ loc.i > Len(arg.steps)
    /\ pc' = "save"
    /\ UNCHANGED <<prog, arg, image, written, loc, scanVars, estVars>>

\* "self.save_results(results)" and "return results"
SaveResults ==
    /\ prog = "pipeline" /\ pc = "save"
    /\ loc' = [loc EXCEPT !.saved = Append(loc.saved, results)]
    /\ pc' = "done" /\ status' = "returned"
    /\ UNCHANGED <<prog, arg, image, written, angle, results, best, viz,
                   estVars>>

NextPipeline ==
    \/ SkipDisabled
    \/ SkipUnknown
    \/ ExecuteStep
    \/ StepsExhausted
    \/ SaveResults

SpecPipeline == InitPipeline /\ [][NextPipeline]_vars /\ WF_vars(NextPipeline)

(***************************************************************************)
(* 11_PDF_Pipeline: Step2_RotationCorrection.execute over                  *)
(* RotationCorrector.correct_batch and correct_single.  correct_single     *)
(* runs tools/rotation_corrector/preprocess_hough.py as a subprocess with  *)
(* --input, --output, --degree and --show-lines; that script is not among  *)
(* the sources, so how it ends, the angle line it prints and whether it    *)
(* writes a rotated image to the output path are the environment's choice. *)
(* Angles are in 1/100 degree, the precision of the printed line.  File    *)
(* names are numbered in their sort order.  A path holds "original" (the   *)
(* input image as it was), "rotated", or is "absent".  loc holds           *)
(* correct_batch's locals and, for the file handled last, whether it       *)
(* existed, what the script did and what the output path holds.            *)
(***************************************************************************)
MaxFiles == 3     \* most image files in the input directory
SkipThreshold == 500     \* skip_threshold=5.0

\* The angles the script prints: inside, on and outside the threshold.
ScriptAngles == {0, SkipThreshold, -(SkipThreshold + 1)}

\* subprocess.run: TimeoutExpired, another exception, or a completed process
\* with its return code, the angle on the line it printed (none: {}) and
\* whether it wrote the output path.
ScriptOutcomes ==
    {[how |-> h, returncode |-> 0, angle |-> {}, wrote |-> FALSE] :
        h \in {"timeout", "raised"}} \cup
    [how : {"exit"}, returncode : {1}, angle : {{}}, wrote : BOOLEAN] \cup
    [how : {"exit"}, returncode : {0},
     angle : {{}} \cup {{a} : a \in ScriptAngles}, wrote : BOOLEAN]

Outcome(success, a, message, skipped, output) ==
    [success |-> success, angle |-> a, message |-> message,
     skipped |-> skipped, output |-> output]

\* correct_single(image_path, output_path): the tuple returned and what the
\* output path holds afterwards.  in_place: image_path = output_path.
correct_single(exists, in_place, skip_threshold, script) ==
    LET before == IF in_place THEN "original" ELSE "absent"
        after == IF script.wrote THEN "rotated" ELSE before
    IN IF ~exists THEN Outcome(FALSE, {}, "missing", FALSE, "absent")
       ELSE IF script.how = "timeout"
       THEN Outcome(FALSE, {}, "timeout", FALSE, after)
       ELSE IF script.how = "raised"
       THEN Outcome(FALSE, {}, "error", FALSE, after)
       ELSE IF script.returncode # 0
       THEN Outcome(FALSE, {}, "failed", FALSE, after)
       ELSE IF script.angle = {}
       THEN Outcome(FALSE, {}, "no angle", FALSE, after)
       ELSE LET a == CHOOSE x \in script.angle : TRUE
            IN IF Abs(a) <= skip_threshold
               THEN Outcome(TRUE, {a}, "skipped", TRUE,
                            IF in_place THEN after ELSE "original")
               ELSE IF after = "absent"
               THEN Outcome(FALSE, {a}, "no output", FALSE, after)
               ELSE Outcome(TRUE, {a}, "rotated", FALSE, after)

\* input_dir.glob over the extensions: the files in any order.
Listings(dir) ==
    {q \in [1..Cardinality(dir) -> dir] : \A f \in dir : \E i \in DOMAIN q : q[i] = f}

\* Step2's own count of the results: rotated_count and skipped_count.
RECURSIVE CountResults(_)
CountResults(rs) ==
    IF rs = <<>> THEN [rotated_count |-> 0, skipped_count |-> 0]
    ELSE LET rest == CountResults(Tail(rs))
             r == Head(rs)
         IN IF ~r.success THEN rest
            ELSE IF r.skipped
            THEN [rest EXCEPT !.skipped_count = rest.skipped_count + 1]
            ELSE [rest EXCEPT !.rotated_count = rest.rotated_count + 1]

Step2Status_any_success(success_count, total_count) ==
    IF success_count > 0 THEN "success" ELSE "partial_success"

\* "success" if success_count == total_count else "partial_success"
Step2Status(success_count, total_count) ==
    IF success_count = total_count THEN "success" ELSE "partial_success"

NoBatch == [image_files |-> <<>>, i |-> 1, success_count |-> 0,
            skipped_count |-> 0, exists |-> TRUE,
            script |-> [how |-> "none", returncode |-> 0, angle |-> {},
                        wrote |-> FALSE],
            output |-> "absent", returned |-> <<>>, result_data |-> <<>>]

\* caller "step2": Step2_RotationCorrection.execute; "direct": correct_batch
\* called on its own.
InitCorrect ==
    /\ prog = "correct"
    /\ arg \in [caller : {"step2", "direct"}, dir_exists : BOOLEAN,
                dir : SUBSET (1..MaxFiles), inplace : BOOLEAN,
                skip_threshold : {SkipThreshold}]
    /\ ~arg.dir_exists => arg.dir = {}
    /\ loc = NoBatch
    /\ pc = "enter"
    /\ image = NoImage
    /\ lib = NoLib /\ ran = {} /\ est = NoEst /\ fused = NoFused /\ rot = NoRot
    /\ written = {}
    /\ NoScan /\ status = "running"

\* validate_input raises FileNotFoundError and execute reports "failed".
Step2Fails ==
    /\ prog = "correct" /\ pc = "enter" /\ arg.caller = "step2"
    /\ ~arg.dir_exists \/ arg.dir = {}
    /\ pc' = "done" /\ status' = "failed"
    /\ UNCHANGED <<prog, arg, image, written, loc, angle, results, best, viz,
                   estVars>>

\* correct_batch returns (0, 0, []) for a missing or empty directory.
CorrectBatchEmpty ==
    /\ prog = "correct" /\ pc = "enter" /\ arg.caller = "direct"
    /\ ~arg.dir_exists \/ arg.dir = {}
    /\ loc' = [loc EXCEPT !.returned = <<0, 0, <<>>>>]
    /\ pc' = "done" /\ status' = "returned"
    /\ UNCHANGED <<prog, arg, image, written, angle, results, best, viz,
                   estVars>>

\* "image_files = sorted(image_files)" and the counters set to zero.
CorrectBatchEnter ==
    /\ prog = "correct" /\ pc = "enter"
    /\ arg.dir_exists /\ arg.dir # {}
    /\ \E listing \in Listings(arg.dir) :
         loc' = [loc EXCEPT !.image_files = SortAsc(listing)]
    /\ pc' = "files"
    /\ UNCHANGED <<prog, arg, image, written, scanVars, estVars>>

\* One turn of "for img_file in image_files".
CorrectFile ==
    /\ prog = "correct" /\ pc = "files" /\ loc.i <= Len(loc.image_files)
    /\ \E exists \in BOOLEAN, script \in ScriptOutcomes :
         LET r == correct_single(exists, arg.inplace, arg.skip_threshold, script)
         IN /\ results' = Append(results,
                                 [file |-> loc.image_files[loc.i],
                                  success |-> r.success, angle |-> r.angle,
                                  message |-> r.message, skipped |-> r.skipped])
            /\ loc' = [loc EXCEPT
                         !.i = loc.i + 1,
                         !.success_count = IF r.success THEN @ + 1 ELSE @,
                         !.skipped_count = IF r.skipped THEN @ + 1 ELSE @,
                         !.exists = exists, !.script = script,
                         !.output = r.output]
    /\ UNCHANGED <<prog, pc, arg, image, written, angle, best, viz, status,
                   estVars>>

\* "return success_count, len(image_files), results"
CorrectBatchReturn ==
    /\ prog = "correct" /\ pc = "files" /\ loc.i > Len(loc.image_files)
    /\ loc' = [loc EXCEPT !.returned = <<loc.success_count,
                                         Len(loc.image_files), results>>]
    /\ IF arg.caller = "step2"
       THEN pc' = "report" /\ status' = status
       ELSE pc' = "done" /\ status' = "returned"
    /\ UNCHANGED <<prog, arg, image, written, angle, results, best, viz,
                   estVars>>

\* Step2's result_data from what correct_batch returned.
Step2Report ==
    /\ prog = "correct" /\ pc = "report"
    /\ LET success_count == loc.returned[1]
           total_count == loc.returned[2]
           counts == CountResults(loc.returned[3])
       IN /\ loc' = [loc EXCEPT !.result_data =
                       [status |-> Step2Status(success_count, total_count),
                        files_count |-> total_count,
                        success_count |-> success_count,
                        failed_count |-> total_count - success_count,
                        rotated_count |-> counts.rotated_count,
                        skipped_count |-> counts.skipped_count]]
          /\ status' = Step2Status(success_count, total_count)
    /\ pc' = "done"
    /\ UNCHANGED <<prog, arg, image, written, angle, results, best, viz,
                   estVars>>

NextCorrect ==
    \/ Step2Fails
    \/ CorrectBatchEmpty
    \/ CorrectBatchEnter
    \/ CorrectFile
    \/ CorrectBatchReturn
    \/ Step2Report

SpecCorrect == InitCorrect /\ [][NextCorrect]_vars

(***************************************************************************)
(* The entry points that take an image path, up to the point where each    *)
(* has read its input: the four command-line tools' main(), the scan       *)
(* tool's main(), and ImagePreprocessor.enhance_image.  What follows a     *)
(* successful read is recorded only as the stages that ran.                *)
(***************************************************************************)
EntryPoints == {"hough", "pca", "dl", "opencv", "scan", "enhance_image"}

\* The file at the input path: absent, present but not an image, or an image.
InputFiles ==
    {[exists |-> FALSE, content |-> NoImage],
     [exists |-> TRUE, content |-> NoImage]} \cup
    {[exists |-> TRUE, content |-> MkImage(2, 2, p)] : p \in Patterns}

\* cv2.imread: None (NoImage here) unless the file holds an image.
imread(file) == IF file.exists THEN file.content ELSE NoImage

InitEntry ==
    /\ prog = "entry"
    /\ arg \in [entry : EntryPoints, file : InputFiles, no_rotation : BOOLEAN,
                show_lines : BOOLEAN, output : BOOLEAN]
    /\ image = NoImage
    /\ pc = "read"
    /\ NoEstimation /\ NoScan /\ status = "running"

\* The end of an entry point before any processing: outcome is "returned"
\* (main returns, exit status 0), "exit 1" or "ValueError".
Leave(outcome) ==
    /\ pc' = "done" /\ status' = outcome
    /\ UNCHANGED <<prog, arg, image, written, loc, lib, ran, est, fused, rot, angle,
                   results, best, viz>>

Proceed(img) ==
    /\ pc' = "process" /\ image' = img
    /\ UNCHANGED <<prog, arg, written, loc, lib, ran, est, fused, rot, scanVars>>

\* main() of preprocess_hough, preprocess_pca and preprocess_dl: the same
\* two tests, each ending in a bare "return".
ReadOrReturn(entry) ==
    /\ prog = "entry" /\ pc = "read" /\ arg.entry = entry
    /\ IF ~arg.file.exists THEN Leave("returned")
       ELSE IF imread(arg.file) = NoImage THEN Leave("returned")
       ELSE Proceed(imread(arg.file))

HoughMain == ReadOrReturn("hough")
PcaMain == ReadOrReturn("pca")
DlMain == ReadOrReturn("dl")

OpenCVMain ==
    /\ prog = "entry" /\ pc = "read" /\ arg.entry = "opencv"
    /\ IF imread(arg.file) = NoImage THEN Leave("returned")
       ELSE Proceed(imread(arg.file))

ScanMain ==
    /\ prog = "entry" /\ pc = "read" /\ arg.entry = "scan"
    /\ IF imread(arg.file) = NoImage THEN Leave("exit 1")
       ELSE Proceed(imread(arg.file))

EnhanceImage ==
    /\ prog = "entry" /\ pc = "read" /\ arg.entry = "enhance_image"
    /\ IF imread(arg.file) = NoImage THEN Leave("ValueError")
       ELSE Proceed(imread(arg.file))

\* The stages the entry point goes on to run on the image it read.
Stages ==
    CASE arg.entry = "hough" /\ arg.show_lines -> {"estimate"}
      [] arg.entry \in {"hough", "pca", "dl"} ->
            IF arg.no_rotation THEN {"enhance"}
            ELSE {"estimate", "rotate", "enhance"}
      [] arg.entry = "opencv" -> {"estimate", "rotate", "enhance"}
      [] arg.entry = "scan" -> {"estimate"}
      [] arg.entry = "enhance_image" -> {"enhance"}

ProcessImage ==
    /\ prog = "entry" /\ pc = "process"
    /\ ran' = Stages
    /\ pc' = "done" /\ status' = "returned"
    /\ UNCHANGED <<prog, arg, image, written, loc, lib, est, fused, rot, angle, results,
                   best, viz>>

NextEntry ==
    \/ HoughMain
    \/ PcaMain
    \/ DlMain
    \/ OpenCVMain
    \/ ScanMain
    \/ EnhanceImage
    \/ ProcessImage

SpecEntry == InitEntry /\ [][NextEntry]_vars

(***************************************************************************)
(* The callers that correct the skew from one estimator:                   *)
(* auto_rotate_by_pca, preprocess_image of preprocess_dl, and              *)
(* ImagePreprocessor.deskew.  fused holds the rotation angle the caller    *)
(* reports and the confidence it was given; deskew reports neither.        *)
(***************************************************************************)
MinAngle == 50                 \* "if abs(angle) < 0.5", in 1/100 degree
MinConfidence == 600           \* "if confidence < 0.6"

Callers == {"auto_rotate_by_pca", "preprocess_dl", "deskew"}

\* Raw principal-axis angles around the 0.5 degree floor, and some beyond.
GateRawAngles == {0, 49, -49, MinAngle, -MinAngle, 51, Deg(5), Deg(-30), Deg(100)}

\* cv2.HoughLines: None, or lines given by theta * 180 / pi - 90.
ThetaResults ==
    {[none |-> TRUE, raw |-> <<>>]} \cup
    {[none |-> FALSE, raw |-> r] :
        r \in {<<0>>, <<49>>, <<-MinAngle>>, <<MinAngle, 52>>, <<Deg(-90)>>,
               <<Deg(3), Deg(5), Deg(4)>>}}

\* detect_angle_deep_learning: the trained model when PyTorch and a model
\* file are there (its confidence is the literal 0.9), otherwise
\* SimpleRotationDetector().predict.
detect_angle_deep_learning(model, model_angle, available, points, raw, evr) ==
    IF model THEN Estimate(model_angle, Milli(9, 10))
    ELSE predict(available, points, raw, evr)

\* What a caller hands back: the image and the angle it reports.
auto_rotate_by_pca(img, e) ==
    IF Abs(e.angle) < MinAngle
    THEN [rot |-> Returned(img), angle |-> 0]
    ELSE [rot |-> rotate_image_pca(img, Frac(e.angle, 1)), angle |-> e.angle]

preprocess_image_dl(img, e) ==
    IF Abs(e.angle) > MinAngle
    THEN [rot |-> rotate_image_dl(img, Frac(e.angle, 1)), angle |-> e.angle]
    ELSE [rot |-> Returned(img), angle |-> 0]

deskew(img, lines) ==
    IF lines.none THEN Returned(img)
    ELSE IF Abs(Median(lines.raw)) < MinAngle THEN Returned(img)
    ELSE Warped(Frac(Median(lines.raw), 1), NoImage)

InitGate ==
    /\ prog \in Callers
    /\ arg = [method |-> prog]
    /\ image \in TestImages
    /\ pc = "call"
    /\ NoEstimation /\ NoScan /\ status = "running"

AutoRotateByPca ==
    /\ prog = "auto_rotate_by_pca" /\ pc = "call"
    /\ \E n \in PointCounts, raw \in GateRawAngles, evr \in VarianceRatios :
         LET e == detect_angle_by_pca(n, raw, evr)
             r == auto_rotate_by_pca(image, e)
         IN /\ lib' = [lib EXCEPT !.points = n, !.raw = raw, !.evr = evr]
            /\ est' = [est EXCEPT !.pca = e]
            /\ rot' = r.rot
            /\ fused' = Single(Estimate(r.angle, e.conf))
    /\ ran' = ran \cup {"pca"}
    /\ pc' = "done"
    /\ UNCHANGED <<prog, arg, image, written, loc, scanVars>>

PreprocessImageDl ==
    /\ prog = "preprocess_dl" /\ pc = "call"
    /\ \E model \in BOOLEAN, av \in BOOLEAN, n \in PointCounts,
          raw \in GateRawAngles, evr \in VarianceRatios :
         LET e == detect_angle_deep_learning(model, raw, av, n, raw, evr)
             r == preprocess_image_dl(image, e)
         IN /\ lib' = [lib EXCEPT !.available = av, !.points = n, !.raw = raw,
                                   !.evr = evr]
            /\ est' = [est EXCEPT !.pca = e]
            /\ rot' = r.rot
            /\ fused' = Single(Estimate(r.angle, e.conf))
    /\ ran' = ran \cup {"pca"}
    /\ pc' = "done"
    /\ UNCHANGED <<prog, arg, image, written, loc, scanVars>>

Deskew ==
    /\ prog = "deskew" /\ pc = "call"
    /\ \E l \in ThetaResults :
         /\ lib' = [lib EXCEPT !.lines = l]
         /\ rot' = deskew(image, l)
    /\ ran' = ran \cup {"lines"}
    /\ pc' = "done"
    /\ UNCHANGED <<prog, arg, image, written, loc, est, fused, scanVars>>

NextGate ==
    \/ AutoRotateByPca
    \/ PreprocessImageDl
    \/ Deskew

SpecGate == InitGate /\ [][NextGate]_vars

(***************************************************************************)
(* visualize_line_detection of preprocess_hough: the most common segment   *)
(* angle.  A segment is its atan2 angle in 1/100 degree and its length in  *)
(* pixels.                                                                 *)
(***************************************************************************)
MaxSegments == 4   \* most segments cv2.HoughLinesP returns

\* minLineLength=50: lengths 60 and 500; angles that round to 0.0, to 0.5
\* and to -12.0, none of them half way between two tenths.
Segments == {[angle |-> a, length |-> l] : a \in {0, 3, 48, 52, Deg(-12)},
                                            l \in {60, 500}}

RECURSIVE SeqsUpTo(_, _)
SeqsUpTo(S, n) ==
    IF n = 0 THEN {<<>>}
    ELSE LET shorter == SeqsUpTo(S, n - 1)
         IN shorter \cup {Append(q, x) : q \in {t \in shorter : Len(t) = n - 1}, x \in S}

SegmentResults ==
    {[none |-> TRUE, raw |-> <<>>]} \cup
    {[none |-> FALSE, raw |-> r] : r \in SeqsUpTo(Segments, MaxSegments) \ {<<>>}}

\* np.round(angle, 1): to the nearest tenth of a degree, a tie to the even one.
RoundTenth(a) ==
    LET lo == (a \div 10) * 10
        r == a - lo
    IN IF r < 5 THEN lo
       ELSE IF r > 5 THEN lo + 10
       ELSE IF (lo \div 10) % 2 = 0 THEN lo ELSE lo + 10

\* "if degree_limit is None or abs(angle) <= degree_limit"
FilteredLines(lines, degree_limit) ==
    LET Kept(seg) == ~degree_limit.given \/ Abs(seg.angle) <= degree_limit.limit
    IN SelectSeq(lines, Kept)

\* np.unique(rounded_angles, return_counts=True) lists the buckets in
\* ascending order and np.argmax(counts) takes the first of the fullest.
MostCommonAngle(filtered) ==
    LET unique == {RoundTenth(filtered[i].angle) : i \in 1..Len(filtered)}
        count(b) == Cardinality({i \in 1..Len(filtered) :
                                    RoundTenth(filtered[i].angle) = b})
        fullest == {b \in unique : \A c \in unique : count(c) <= count(b)}
    IN CHOOSE b \in fullest : \A c \in fullest : b <= c

\* The function's second result: the angle, none when no segment passes the
\* filter; with lines None the closing "len(filtered_lines)" reads a name
\* never assigned.
\* "if output_path: cv2.imwrite(output_path.replace('.', '_lines.'), result)"
\* comes before that, so the file is written in every case.
visualize_line_detection(lines, output_path, degree_limit) ==
    LET wrote == IF output_path # "" THEN {"_lines"} ELSE {}
    IN IF lines.none
       THEN [raised |-> "UnboundLocalError", found |-> FALSE, angle |-> 0,
             wrote |-> wrote]
       ELSE LET filtered == FilteredLines(lines.raw, degree_limit)
            IN IF Len(filtered) > 0
               THEN [raised |-> "", found |-> TRUE,
                     angle |-> MostCommonAngle(filtered), wrote |-> wrote]
               ELSE [raised |-> "", found |-> FALSE, angle |-> 0, wrote |-> wrote]

InitLines ==
    /\ prog = "show_lines"
    /\ arg \in [degree_limit : {[given |-> FALSE, limit |-> 0],
                                [given |-> TRUE, limit |-> Deg(10)]},   \* --degree
                 output_path : {"", "out.jpg"}]
    /\ image \in {MkImage(2, 2, "dot")}
    /\ pc = "call"
    /\ NoEstimation /\ NoScan /\ status = "running"

VisualizeLineDetection ==
    /\ prog = "show_lines" /\ pc = "call"
    /\ \E l \in SegmentResults :
         LET r == visualize_line_detection(l, arg.output_path, arg.degree_limit)
         IN /\ lib' = [lib EXCEPT !.lines = l]
            /\ est' = [est EXCEPT !.lines = Estimate(r.angle, 0)]
            /\ ran' = IF r.found THEN {"lines"} ELSE {}
            /\ written' = written \cup r.wrote
            /\ status' = IF r.raised # "" THEN r.raised ELSE "returned"
    /\ pc' = "done"
    /\ UNCHANGED <<prog, arg, image, fused, rot, angle, results, best, viz, loc>>

SpecLines == InitLines /\ [][VisualizeLineDetection]_vars

(***************************************************************************)
(* ImagePreprocessor._apply_enhancement_pipeline(img) on the image that    *)
(* enhance_image has read with cv2.imread (three channels, here of equal   *)
(* value).  Each step appends [step, channels, img, blurred] to results.   *)
(* What cv2.fastNlMeansDenoisingColored, CLAHE and cv2.GaussianBlur        *)
(* return is a choice among re-toned images of the same size.              *)
(***************************************************************************)
Levels == {0, 1, 128, White}

\* An image of the size of img with its dark pixels at lo, the others at hi.
LibImages(img) ==
    {[img EXCEPT !.px = [y \in 1..img.h |-> [x \in 1..img.w |->
                           IF img.px[y][x] < 128 THEN lo ELSE hi]]] :
        lo \in Levels, hi \in Levels}

\* cv2.addWeighted(img, 1.5, blurred, -0.5, 0) on one 8-bit pixel with the
\* result wrapped modulo 256 instead of saturated.
addWeighted_wrapping(a, b) ==
    ((3 * a - b + 1) \div 2) % 256
\* cv2.addWeighted(img, 1.5, blurred, -0.5, 0) on one 8-bit pixel:
\* saturate_cast<uchar>(1.5 * a - 0.5 * b), rounding to nearest, halves to
\* the even neighbour.
addWeighted(a, b) ==
    LET twice == 3 * a - b
        low == twice \div 2                      \* floor
        rounded == IF twice % 2 = 0 THEN low
                   ELSE IF low % 2 = 0 THEN low ELSE low + 1
    IN Max(0, Min(White, rounded))

sharpen(img, blurred) ==
    [img EXCEPT !.px = [y \in 1..img.h |-> [x \in 1..img.w |->
                          addWeighted(img.px[y][x], blurred.px[y][x])]]]

InitEnhance ==
    /\ prog = "enhance"
    /\ arg = [image_path |-> "form.jpg"]
    /\ image \in {MkImage(2, 2, p) : p \in Patterns}
    /\ pc = "denoise"
    /\ NoEstimation /\ NoScan /\ status = "running"

PipelineStep(at, next, step, channels, out, blurred) ==
    /\ prog = "enhance" /\ pc = at
    /\ results' = Append(results, [step |-> step, channels |-> channels,
                                   img |-> out, blurred |-> blurred])
    /\ pc' = next
    /\ status' = IF next = "done" THEN "returned" ELSE status
    /\ UNCHANGED <<prog, arg, image, written, loc, angle, best, viz, estVars>>

\* 1. img = ImagePreprocessor.denoise(img)
Denoise ==
    \E out \in LibImages(image) :
        PipelineStep("denoise", "grayscale", "denoise", 3, out, NoImage)

\* 2. gray = ImagePreprocessor.to_grayscale(img): cv2.cvtColor of a pixel
\* (v, v, v) is v.
ToGrayscale ==
    /\ pc = "grayscale"
    /\ PipelineStep("grayscale", "contrast", "to_grayscale", 1,
                    results[Len(results)].img, NoImage)

\* 3. enhanced = ImagePreprocessor.enhance_contrast(gray);
\* EnhanceContrast_skipped passes gray on, as the commented-out step 4 does.
EnhanceContrast_skipped ==
    /\ prog = "enhance" /\ pc = "contrast"
    /\ pc' = "sharpen"
    /\ UNCHANGED <<prog, arg, image, written, loc, lib, ran, est, fused, rot, scanVars>>
EnhanceContrast ==
    /\ pc = "contrast"
    /\ \E out \in LibImages(results[Len(results)].img) :
         PipelineStep("contrast", "sharpen", "enhance_contrast", 1, out, NoImage)

\* 5. sharpened = ImagePreprocessor.sharpen(enhanced), which is returned.
Sharpen ==
    /\ pc = "sharpen"
    /\ \E blurred \in LibImages(results[Len(results)].img) :
         PipelineStep("sharpen", "done", "sharpen", 1,
                      sharpen(results[Len(results)].img, blurred), blurred)

NextEnhance ==
    \/ Denoise
    \/ ToGrayscale
    \/ EnhanceContrast
    \/ Sharpen

SpecEnhance == InitEnhance /\ [][NextEnhance]_vars

(***************************************************************************)
(* OCRParser.fullwidth_to_halfwidth(text).  A text is the sequence of its  *)
(* characters' code points (ord); the converted text is left in results.   *)
(***************************************************************************)
MaxTextLen == 2           \* longest text converted

FullwidthSpace == 12288   \* 0x3000
FullwidthFirst == 65281   \* 0xFF01
FullwidthLast == 65374    \* 0xFF5E
FullwidthOffset == 65248  \* 0xFEE0

\* special_chars, by code point: the keys U+FF0C, U+3002, U+FF1A, U+FF1B,
\* U+FF1F, U+FF01, U+300C, U+300D, U+300E, U+300F, U+3001, U+300A, U+300B
\* and their values , . : ; ? ! " " ' ' , < >
special_chars ==
    (65292 :> 44) @@ (12290 :> 46) @@ (65306 :> 58) @@ (65307 :> 59) @@
    (65311 :> 63) @@ (65281 :> 33) @@ (12300 :> 34) @@ (12301 :> 34) @@
    (12302 :> 39) @@ (12303 :> 39) @@ (12289 :> 44) @@ (12298 :> 60) @@
    (12299 :> 62)

\* The loop with "0xFF01 <= code < 0xFF5E".
fullwidth_to_halfwidth_exclusive(text) ==
    [i \in 1..Len(text) |->
        LET code == text[i]
        IN IF code = FullwidthSpace THEN 32
           ELSE IF FullwidthFirst <= code /\ code < FullwidthLast
                THEN code - FullwidthOffset
           ELSE IF code \in DOMAIN special_chars THEN special_chars[code]
           ELSE code]
fullwidth_to_halfwidth(text) ==
    [i \in 1..Len(text) |->
        LET code == text[i]
        IN IF code = FullwidthSpace THEN 32                    \* chr(0x0020)
           ELSE IF FullwidthFirst <= code /\ code <= FullwidthLast
                THEN code - FullwidthOffset
           ELSE IF code \in DOMAIN special_chars THEN special_chars[code]
           ELSE code]

\* Characters of each kind: A, space, the ideographic space, the ends of
\* the full-width block and its neighbours, full-width A and comma, the
\* ideographic full stop, a corner bracket, an angle bracket, an ideograph.
TextChars ==
    {65, 32, 12288, 65280, 65281, 65313, 65292, 65374, 65375, 12290, 12300,
     12298, 38913}

InitText ==
    /\ prog = "fullwidth"
    /\ \E n \in 0..MaxTextLen : \E text \in [1..n -> TextChars] :
         arg = [text |-> text]
    /\ image = NoImage
    /\ pc = "call"
    /\ NoEstimation /\ NoScan /\ status = "running"

FullwidthToHalfwidth ==
    /\ prog = "fullwidth" /\ pc = "call"
    /\ results' = fullwidth_to_halfwidth(arg.text)
    /\ pc' = "done" /\ status' = "returned"
    /\ UNCHANGED <<prog, arg, image, written, loc, angle, best, viz, estVars>>

SpecText == InitText /\ [][FullwidthToHalfwidth]_vars

(***************************************************************************)
(* Statements about the estimators, the fusion and the rotation that       *)
(* follows it.                                                             *)
(***************************************************************************)
\* detect_angle_combined has returned.
Combined ==
    prog = "opencv" /\ arg.method = "combined" /\ pc \in {"rotate", "enhance", "done"}

\* rotate_image has returned in preprocess_image.
Rotated == prog = "opencv" /\ pc \in {"enhance", "done"}

SumConf == est.contours.conf + est.projection.conf + est.lines.conf
SumAngleConf ==
      est.contours.angle * est.contours.conf
    + est.projection.angle * est.projection.conf
    + est.lines.angle * est.lines.conf

\* The estimates of positive confidence are (10, 0.8) and (12, 0.2).
Scenario104 ==
    LET positive == {e \in {est.contours, est.projection, est.lines} : e.conf > 0}
    IN /\ positive = {Estimate(Deg(10), 800), Estimate(Deg(12), 200)}
       /\ SumConf = One

\* C1: the fused angle is sum(angle_i * confidence_i) / sum(confidence_i)
\* whenever the confidences sum to a positive value, it is 10.4 degrees for
\* the estimates (10, 0.8) and (12, 0.2), and it is 0 when the confidences
\* sum to 0.
C1_WeightedMean ==
    Combined =>
        /\ SumConf > 0 => fused.angle = Frac(SumAngleConf, SumConf)
        /\ Scenario104 => fused.angle = Frac(1040, 1)
        /\ SumConf = 0 => fused.angle = Frac(0, 1)

C1_Witness == Combined /\ Scenario104

AllAbstained ==
    est.contours.conf = 0 /\ est.projection.conf = 0 /\ est.lines.conf = 0

\* C2: when every estimator returns confidence 0 the fused angle is 0 and the
\* rotate_image call that follows returns the original image: the same
\* dimensions and the same pixels.
C2_AbstentionKeepsImage ==
    (Combined /\ Rotated /\ AllAbstained) =>
        /\ fused.angle = Frac(0, 1)
        /\ rot.img = image

InUnit(c) == 0 <= c /\ c <= One

\* C6: the confidence of every estimator that has returned (contours,
\* projection, lines, principal axis) and the fused confidence lie in [0, 1].
C6_ConfidenceBounds ==
    /\ \A name \in ran : InUnit(est[name].conf)
    /\ Combined => (0 <= fused.conf.num /\ fused.conf.num <= One * fused.conf.den)

C6_Witness ==
    /\ Combined
    /\ est.contours.conf = 200 /\ est.projection.conf = One /\ est.lines.conf = 800

InFold(a) == Deg(-45) <= a /\ a <= Deg(45)

\* C7: the angle returned by the estimators that normalise to [-45, 45]
\* (detect_angle_by_lines, detect_angle_by_pca, SimpleRotationDetector.predict)
\* lies in [-45, 45] degrees for every raw atan2 angle.
C7_AngleInFold ==
    /\ "lines" \in ran => InFold(est.lines.angle)
    /\ "pca" \in ran => InFold(est.pca.angle)

\* C8: no segments, no contour, or fewer than 10 edge points: the estimator
\* returns (0, 0).
C8_AbstainOnNoEvidence ==
    /\ ("lines" \in ran /\ (lib.lines.none \/ lib.lines.raw = <<>>))
          => est.lines = Abstain
    /\ ("contours" \in ran /\ lib.contours = <<>>) => est.contours = Abstain
    /\ ("pca" \in ran /\ lib.points < MinEdgePoints) => est.pca = Abstain

C8_Witness ==
    /\ prog = "pca" /\ "pca" \in ran
    /\ lib.points = MinEdgePoints - 1 /\ lib.raw = Deg(30) /\ est.pca = Abstain

HelperRan == prog = "rotate" /\ pc = "done"

\* C3: whenever a rotate_image helper is called with an angle of magnitude
\* below the 0.1 degree threshold (angle 0 included), it returns its input
\* image itself, every pixel as it was, and builds no rotation matrix.
C3_IdentityFastPath ==
    (HelperRan /\ FracAbsLt(arg.angle, RotateEpsilon)) =>
        /\ rot.kind = "input"
        /\ ~rot.matrix
        /\ rot.img = image

\* full_angle_scan has just appended the statistics of one angle.
Scanned == prog = "scan" /\ pc = "sweep" /\ results # <<>>
Latest == results[Len(results)]

\* The offsets whose scan line at angle a has a pixel in the image.
CountedOffsets(a) ==
    LET offs == Offsets(image, arg.scan_step)
    IN {k \in 1..Len(offs) : ValidPoints(image, a, offs[k]) # <<>>}

\* Every in-image pixel of the line at offset k is at or above the floor.
NoDarkPixel(a, k) ==
    LET points == ValidPoints(image, a, Offsets(image, arg.scan_step)[k])
    IN \A i \in 1..Len(points) : Gray(image, points[i]) >= BlankFloor

\* C4: at every swept angle, scan_lines counts the lines with an in-image
\* pixel, and blank_lines counts exactly those of them on which no in-image
\* pixel is below 220; a line with one pixel below 220 is not counted blank
\* however many of its pixels are bright.
C4_BlankIffMinAtFloor ==
    Scanned =>
        /\ Latest.scan_lines = Cardinality(CountedOffsets(Latest.angle))
        /\ Latest.blank_lines =
               Cardinality({k \in CountedOffsets(Latest.angle) :
                               NoDarkPixel(Latest.angle, k)})

\* A line of three pixels, two bright and one at 219, left out of blank_lines
\* while every other line of the same angle is blank.
C4_Witness ==
    /\ Scanned
    /\ image.w = 3 /\ image.h >= 2
    /\ image.px[1] = <<White, BlankFloor - 1, White>>
    /\ Latest.angle = 0
    /\ Latest.scan_lines = image.h
    /\ Latest.blank_lines = image.h - 1

Displayed == prog = "scan" /\ pc \in {"visualize", "done"} /\ results # <<>>

\* Result lists that agree with the sweep's on every angle and blank_rate
\* and differ in white_pixels and white_pixel_rate.
Repainted ==
    {[i \in 1..Len(results) |->
        [results[i] EXCEPT !.white_pixels = f[i],
                           !.white_pixel_rate = Rate(f[i], results[i].total_pixels)]] :
        f \in [1..Len(results) -> {0, 1}]}

\* C5: the entry display_results returns has a blank_rate no lower than any
\* swept angle's, and it returns the same angle for every list that agrees
\* on the angles and blank rates, whatever the white-pixel figures are.
C5_SelectionByBlankRate ==
    Displayed =>
        /\ \A i \in 1..Len(results) : FracLe(results[i].blank_rate, best.blank_rate)
        /\ \E i \in 1..Len(results) : best = results[i]
        /\ \A alt \in Repainted : display_results(alt).best.angle = best.angle

\* The chosen angle has a strictly higher blank_rate and a strictly lower
\* white_pixel_rate than another swept angle.
C5_Witness ==
    /\ Displayed
    /\ \E i \in 1..Len(results) :
         /\ FracLt(results[i].blank_rate, best.blank_rate)
         /\ FracLt(best.white_pixel_rate, results[i].white_pixel_rate)

\* The sweep is degenerate: no angle in the window, or an angle at which no
\* scan line touches the image.
Degenerate ==
    /\ prog = "scan"
    /\ \/ arg.sweep.angle_start > arg.sweep.angle_end
       \/ \E i \in 1..Len(results) : results[i].scan_lines = 0

\* C9: on a degenerate sweep neither display_results nor
\* visualize_best_angle raises IndexError or ZeroDivisionError.
C9_DegenerateNeverThrows ==
    Degenerate => status \notin {"IndexError", "ZeroDivisionError"}

\* C9, the second failure alone: with a non-empty window, a sweep whose
\* chosen angle has no counted line does not raise.
C9_NoZeroDivision ==
    (Degenerate /\ results # <<>>) => status # "ZeroDivisionError"

InvalidInput == prog = "entry" /\ imread(arg.file) = NoImage

\* C10: an entry point given a path that is missing or holds no image ends
\* by raising or by exiting with a non-zero status, with no stage run; it
\* never returns normally.
C10_InvalidInputFails ==
    (InvalidInput /\ pc = "done") =>
        /\ status \in {"ValueError", "exit 1"}
        /\ ran = {}

GateCalled == prog \in {"auto_rotate_by_pca", "preprocess_dl"} /\ pc = "done"

\* C11: a caller that corrects from one estimator rotates only when the
\* estimated angle is at least 0.5 degree in magnitude and the confidence is
\* at least the 0.6 floor; otherwise it returns the image it was given and
\* reports a rotation angle of 0.
C11_GateOnAngleAndConfidence ==
    (GateCalled /\ ~(Abs(est.pca.angle) >= MinAngle /\ est.pca.conf >= MinConfidence))
        => (rot = Returned(image) /\ fused.angle = Frac(0, 1))

\* C11, the angle floor alone: below 0.5 degree the image given is returned
\* and the reported angle is 0.
C11_AngleFloor ==
    /\ (GateCalled /\ Abs(est.pca.angle) < MinAngle) =>
           rot = Returned(image) /\ fused.angle = Frac(0, 1)
    /\ (prog = "deskew" /\ pc = "done" /\ ~lib.lines.none
          /\ Abs(Median(lib.lines.raw)) < MinAngle) => rot = Returned(image)

\* The summed length of the kept segments whose angle rounds to b.
BucketLength(b) ==
    LET kept == FilteredLines(lib.lines.raw, arg.degree_limit)
    IN SumSeq([i \in 1..Len(kept) |->
                 IF RoundTenth(kept[i].angle) = b THEN kept[i].length ELSE 0])

\* C12: the angle visualize_line_detection returns is the 0.1 degree bucket
\* whose segments have the largest summed length: no other bucket of the
\* kept segments has a larger sum.
C12_LongestBucketWins ==
    (prog = "show_lines" /\ "lines" \in ran) =>
        \A i \in 1..Len(lib.lines.raw) :
            LET seg == lib.lines.raw[i]
            IN (~arg.degree_limit.given \/ Abs(seg.angle) <= arg.degree_limit.limit)
                  => BucketLength(RoundTenth(seg.angle)) <= BucketLength(est.lines.angle)

\* C13: for every minAreaRect angle a in [-90, 0), the angle returned by
\* detect_angle_by_contours lies in the half-open interval (-45, 45],
\* a = -45 included.
C13_RemapHalfOpen ==
    ("contours" \in ran /\ lib.contours # <<>>) =>
        LET a == LargestContour(lib.contours).rect
        IN (Deg(-90) <= a /\ a < 0)
              => (Deg(-45) < est.contours.angle /\ est.contours.angle <= Deg(45))

\* The same remap with the closed interval [-45, 45].
C13_RemapClosed ==
    ("contours" \in ran /\ lib.contours # <<>>) => InFold(est.contours.angle)


\* The window of -10 to +10 degrees at 0.5 degree steps, both ends included.
WindowAngles == {Deg(-10) + 50 * k : k \in 0..40}

\* C14: the candidates of detect_angle_by_projection are every angle of the
\* window from -10 to +10 degrees at 0.5 degree steps, both ends included,
\* and the returned angle is a candidate whose variance is >= that of every
\* other candidate.
C14_WindowAndArgMax ==
    "projection" \in ran =>
        /\ {ProjAngles[i] : i \in 1..Len(ProjAngles)} = WindowAngles
        /\ Len(lib.variances) = Cardinality(WindowAngles)
        /\ \E i \in 1..Len(lib.variances) :
              /\ est.projection.angle = ProjAngles[i]
              /\ \A j \in 1..Len(lib.variances) : lib.variances[j] <= lib.variances[i]

\* The returned angle has the largest variance among the angles the
\* estimator tried.
C14_ArgMaxOfTried ==
    "projection" \in ran =>
        \E i \in 1..Len(lib.variances) :
            /\ est.projection.angle = ProjAngles[i]
            /\ \A j \in 1..Len(lib.variances) : lib.variances[j] <= lib.variances[i]


\* The counts of the latest result are within their totals, and scan_lines
\* is the number of scan lines with an in-image pixel.
CountsInRange ==
    /\ Latest.scan_lines = Cardinality(CountedOffsets(Latest.angle))
    /\ 0 <= Latest.blank_lines /\ Latest.blank_lines <= Latest.scan_lines
    /\ 0 <= Latest.white_pixels /\ Latest.white_pixels <= Latest.total_pixels

\* C15 as stated: blank_rate equals blank_lines / total_lines, a fraction
\* in [0, 1] (0 when total_lines is 0), with 0 <= blank_lines <= scan_lines
\* and 0 <= white_pixels <= total_pixels.
C15_BlankRateFraction ==
    Scanned =>
        /\ CountsInRange
        /\ Latest.blank_rate = IF Latest.scan_lines > 0
                               THEN Frac(Latest.blank_lines, Latest.scan_lines)
                               ELSE Frac(0, 1)
        /\ FracLe(Frac(0, 1), Latest.blank_rate)
        /\ FracLe(Latest.blank_rate, Frac(1, 1))

\* C15 as amended: blank_rate equals 100 * blank_lines / total_lines, a
\* percentage in [0, 100] (0 when total_lines is 0), with the same bounds on
\* the counts.
C15_BlankRatePercent ==
    Scanned =>
        /\ CountsInRange
        /\ Latest.blank_rate = IF Latest.scan_lines > 0
                               THEN Frac(100 * Latest.blank_lines, Latest.scan_lines)
                               ELSE Frac(0, 1)
        /\ FracLe(Frac(0, 1), Latest.blank_rate)
        /\ FracLe(Latest.blank_rate, Frac(100, 1))

C15_Witness ==
    /\ Scanned
    /\ Latest.scan_lines = 3 /\ Latest.blank_lines = 2
    /\ Latest.blank_rate = Frac(200, 3)
    /\ 0 < Latest.white_pixels /\ Latest.white_pixels < Latest.total_pixels

\* A scan in which no line meets the image.
C15_NoLines == Scanned /\ Latest.scan_lines = 0 /\ Latest.blank_rate = Frac(0, 1)


\* The sweep of a page has been displayed: its best result is chosen.
PageDisplayed == Displayed /\ image \in Pages /\ Len(results) = 11

\* The selected angle is within 0.5 degree of 0 and its blank_rate is
\* strictly greater than those at -5 and at +5.
SelectsZeroSkew ==
    /\ 2 * Abs(best.angle) <= 1
    /\ FracLt(results[1].blank_rate, best.blank_rate)
    /\ FracLt(results[11].blank_rate, best.blank_rate)

\* C16: for a zero-skew page of horizontal black text lines on white, the
\* sweep over -5..5 degrees selects an angle within 0.5 degree of 0, and the
\* blank_rate at the selected angle is strictly greater than at -5 and +5.
C16_PageSelectsZeroSkew == PageDisplayed => SelectsZeroSkew

\* The same scenario when every pixel row is scanned (scan_step 1).
C16_AtUnitStep == (PageDisplayed /\ arg.scan_step = 1) => SelectsZeroSkew


\* C17: a rotate helper leaves every pixel of the caller's image as it was,
\* and the image it returns is a new buffer, never the input itself.
C17_InputKeptResultNew ==
    /\ [][image' = image]_vars
    /\ [](HelperRan => (rot.kind # "input" /\ rot.kind # "none"))

\* The first half alone: no helper changes a pixel of its input.
C17_InputKept == [][image' = image]_vars


\* C18: the estimators are pure: the line estimator performs no I/O (it
\* writes no file), so its result is that of running it alone, in any order
\* with the others.
C18_EstimatorWritesNothing ==
    (prog = "show_lines" /\ pc = "done") => written = {}

\* The per-angle scans of the sweep write no file either.
C18_SweepWritesNothing ==
    (prog = "scan" /\ pc \in {"sweep", "display"}) => written = {}


\* The steps the enhancement pipeline has finished, in the order they ran.
StepsRun == [i \in 1..Len(results) |-> results[i].step]
PipelineOrder == <<"denoise", "to_grayscale", "enhance_contrast", "sharpen">>

\* C19: the enhancement pipeline runs denoise, grayscale conversion, CLAHE
\* and sharpening in this order, each on its predecessor's output and none
\* skipped, and every pixel of the result is 1.5 * image - 0.5 * blurred
\* saturated to 0..255 (to within the rounding to an integer).
C19_StepOrder ==
    prog = "enhance" =>
        /\ StepsRun = SubSeq(PipelineOrder, 1, Len(results))
        /\ (pc = "done") = (Len(results) = 4)
        /\ pc = "done" =>
              LET enhanced == results[3].img
                  blurred == results[4].blurred
                  out == results[4].img
              IN /\ results[2].img = results[1].img
                 /\ out.w = image.w /\ out.h = image.h
                 /\ \A y \in 1..out.h : \A x \in 1..out.w :
                       LET twice == 3 * enhanced.px[y][x] - blurred.px[y][x]
                           r == out.px[y][x]
                       IN /\ 0 <= r /\ r <= 255
                          /\ twice <= 0 => r = 0
                          /\ twice >= 510 => r = 255
                          /\ (0 < twice /\ twice < 510) => Abs(2 * r - twice) <= 1

C19_Witness ==
    /\ prog = "enhance" /\ pc = "done"
    /\ StepsRun = PipelineOrder
    /\ results[3].img.px[1][1] = 1 /\ results[4].blurred.px[1][1] = 128
    /\ results[4].img.px[1][1] = 0
    /\ results[3].img.px[2][2] = White /\ results[4].blurred.px[2][2] = 0
    /\ results[4].img.px[2][2] = White


Converted == prog = "fullwidth" /\ pc = "done"

\* C20: fullwidth_to_halfwidth converts character by character: U+3000
\* becomes U+0020, a code point c in U+FF01..U+FF5E becomes c - 0xFEE0, the
\* listed CJK punctuation marks become their ASCII counterparts (U+3002 the
\* full stop, U+300C the double quote, U+300A the less-than sign), every
\* other character is unchanged, and the length is kept.
C20_FullwidthToHalfwidth ==
    Converted =>
        /\ Len(results) = Len(arg.text)
        /\ \A i \in 1..Len(arg.text) :
              LET c == arg.text[i]
                  r == results[i]
              IN /\ c = 12288 => r = 32
                 /\ (65281 <= c /\ c <= 65374) => r = c - 65248
                 /\ c = 12290 => r = 46
                 /\ c = 12300 => r = 34
                 /\ c = 12298 => r = 60
                 /\ c \in {65, 32, 65280, 65375, 38913} => r = c

C20_Witness ==
    /\ Converted
    /\ arg.text = <<65374, 12290>>
    /\ results = <<126, 46>>

(***************************************************************************)
(* bresenham_line                                                          *)
(***************************************************************************)
Walked == prog = "bresenham_line" /\ pc = "done"

\* C21: bresenham_line terminates for every pair of integer end points: the
\* loop comes to its break and stays returned, its locals are integers all
\* along, and the list it returns starts with (x0, y0) and ends with
\* (x1, y1), a single point when the two coincide.
C21_WalkTerminates ==
    /\ [](prog = "bresenham_line" =>
            /\ loc.x \in Int /\ loc.y \in Int /\ loc.err \in Int
            /\ \A i \in 1..Len(results) :
                  results[i][1] \in Int /\ results[i][2] \in Int)
    /\ <>[](/\ Walked
            /\ results[1] = <<arg.x0, arg.y0>>
            /\ results[Len(results)] = <<arg.x1, arg.y1>>
            /\ (arg.x0 = arg.x1 /\ arg.y0 = arg.y1 => Len(results) = 1))

\* A walk up and to the left over several points has returned.
C21_Witness ==
    /\ Walked
    /\ arg.x1 < arg.x0 /\ arg.y1 < arg.y0 /\ arg.x0 - arg.x1 # arg.y0 - arg.y1
    /\ Len(results) > 2
    /\ results[Len(results)] = <<arg.x1, arg.y1>>

\* C22: at every moment of the walk, consecutive points differ by at most 1
\* in x and in y and are never equal, x and y each move only towards the end
\* point, and the returned list has max(|x1 - x0|, |y1 - y0|) + 1 points.
C22_WalkShape ==
    prog = "bresenham_line" =>
        /\ \A i \in 1..(Len(results) - 1) :
              LET stepx == results[i + 1][1] - results[i][1]
                  stepy == results[i + 1][2] - results[i][2]
              IN /\ Abs(stepx) <= 1 /\ Abs(stepy) <= 1
                 /\ results[i + 1] # results[i]
                 /\ stepx * (arg.x1 - arg.x0) >= 0
                 /\ stepy * (arg.y1 - arg.y0) >= 0
        /\ (pc = "done" =>
               Len(results) = Max(Abs(arg.x1 - arg.x0), Abs(arg.y1 - arg.y0)) + 1)

\* A returned walk with both diagonal and straight steps.
C22_Witness ==
    /\ Walked
    /\ \E i \in 1..(Len(results) - 1) :
          results[i + 1][1] # results[i][1] /\ results[i + 1][2] # results[i][2]
    /\ \E i \in 1..(Len(results) - 1) :
          results[i + 1][1] = results[i][1] \/ results[i + 1][2] = results[i][2]

(***************************************************************************)
(* full_angle_scan: the sweep                                              *)
(***************************************************************************)
Swept == prog = "sweep" /\ pc = "done"

\* floor((angle_end - angle_start) / angle_step) + 1
CandidateCount == (10 * (arg.angle_end - arg.angle_start)) \div arg.angle_step.n + 1

\* Entry k of the returned list is the scan of angle_start + (k-1) * angle_step.
InSweepOrder ==
    \A k \in 1..Len(results) :
        results[k].angle.n = 10 * arg.angle_start + (k - 1) * arg.angle_step.n

\* C23: for whole-number angle_start <= angle_end and angle_step > 0,
\* full_angle_scan returns exactly floor((angle_end - angle_start) /
\* angle_step) + 1 results, one per candidate angle up to angle_end, in
\* ascending order with none skipped or repeated.
C23_SweepCoversRange ==
    (Swept /\ arg.angle_start <= arg.angle_end) =>
        Len(results) = CandidateCount /\ InSweepOrder

\* The same for whole-number steps, where every sum is exact.
C23_WholeSteps ==
    (Swept /\ arg.angle_start <= arg.angle_end /\ arg.angle_step.e = 0) =>
        Len(results) = CandidateCount /\ InSweepOrder

\* With any step the scans come in order and none is repeated; at most the
\* last candidate is missing.
C23_OrderedAndNearlyAll ==
    (Swept /\ arg.angle_start <= arg.angle_end) =>
        InSweepOrder /\ Len(results) \in {CandidateCount - 1, CandidateCount}

(***************************************************************************)
(* full_angle_scan: white_threshold and ties                               *)
(***************************************************************************)
\* The sweep so far as scan_at_angle returns it under threshold wt.
SweepWith(wt) ==
    [k \in 1..Len(results) |->
        scan_at_angle(image, results[k].angle, arg.scan_step, wt)]

\* C24: two sweeps of the same image that differ only in white_threshold
\* agree on scan_lines, blank_lines and blank_rate at every angle, and
\* display_results selects the same angle from both; only white_pixels and
\* white_pixel_rate may differ.
C24_ThresholdLeavesSelection ==
    \A wt \in WhiteThresholds :
        /\ Scanned =>
              LET other == scan_at_angle(image, Latest.angle, arg.scan_step, wt)
              IN /\ other.angle = Latest.angle
                 /\ other.scan_lines = Latest.scan_lines
                 /\ other.blank_lines = Latest.blank_lines
                 /\ other.blank_rate = Latest.blank_rate
                 /\ other.total_pixels = Latest.total_pixels
        /\ Displayed => display_results(SweepWith(wt)).best.angle = best.angle

\* A displayed sweep whose white_pixels would differ under the other
\* threshold, on an image with blank lines.
C24_Witness ==
    /\ Displayed
    /\ best.blank_lines > 0
    /\ \E wt \in WhiteThresholds, k \in 1..Len(results) :
          SweepWith(wt)[k].white_pixels # results[k].white_pixels

\* The swept entries that share the maximal blank_rate.
Maximal ==
    {i \in 1..Len(results) :
        \A j \in 1..Len(results) :
            FracLe(results[j].blank_rate, results[i].blank_rate)}

\* C25: when several swept angles share the maximal blank_rate,
\* display_results returns the one scanned first, the smallest angle of the
\* sweep.
C25_FirstOfEquals ==
    Displayed =>
        \E i \in Maximal :
            /\ best = results[i]
            /\ \A j \in Maximal : i <= j /\ results[i].angle <= results[j].angle

\* Three angles share the maximal blank_rate and the first was returned.
C25_Witness ==
    /\ Displayed
    /\ Cardinality(Maximal) = 3
    /\ best.angle = arg.sweep.angle_start
    /\ best.blank_lines > 0
    /\ \E i \in 2..Len(results) : results[i] # [results[1] EXCEPT !.angle = results[i].angle]

(***************************************************************************)
(* detect_blank_separators                                                 *)
(***************************************************************************)
Separated == prog = "blank_separators" /\ pc = "done"

\* Row y (from 0) has a white ratio above 0.9.
BlankRow(y) ==
    10 * Cardinality({x \in 1..image.w : image.px[y + 1][x] >= arg.white_threshold})
        > 9 * image.w

\* Rows s..e-1 are a maximal run of blank rows ended by the non-blank row e.
ClosedBlankRun(s, e) ==
    /\ 0 <= s /\ s < e /\ e < image.h
    /\ \A y \in s..(e - 1) : BlankRow(y)
    /\ ~BlankRow(e)
    /\ (s = 0 \/ ~BlankRow(s - 1))

\* Columns a..b-1 are a maximal run of white pixels on row y.
WhiteRun(y, a, b) ==
    /\ 0 <= a /\ a < b /\ b <= image.w
    /\ \A x \in a..(b - 1) : image.px[y + 1][x + 1] >= arg.white_threshold
    /\ (a = 0 \/ image.px[y + 1][a] < arg.white_threshold)
    /\ (b = image.w \/ image.px[y + 1][b + 1] < arg.white_threshold)

\* C26: every reported region belongs to a maximal run of at least 3 blank
\* rows ended by a non-blank row, and is a maximal run of white pixels on the
\* run's middle row with length = x_end - x_start >= min_blank_length; every
\* such run of pixels is reported, one reaching the last column included; a
\* run of blank rows that reaches the last row yields no region.
C26_RegionsOfClosedRuns ==
    Separated =>
        /\ \A i \in 1..Len(results) :
              LET r == results[i]
              IN /\ r.type = "horizontal"
                 /\ ClosedBlankRun(r.y_start, r.y_end)
                 /\ r.y_end - r.y_start >= MinRegionHeight
                 /\ r.y = r.y_start + (r.y_end - r.y_start) \div 2
                 /\ WhiteRun(r.y, r.x_start, r.x_end)
                 /\ r.length = r.x_end - r.x_start
                 /\ r.length >= arg.min_blank_length
        /\ \A s \in 0..image.h, e \in 0..image.h :
              (ClosedBlankRun(s, e) /\ e - s >= MinRegionHeight) =>
                  \A a \in 0..image.w, b \in 0..image.w :
                      (/\ b - a >= arg.min_blank_length
                       /\ WhiteRun(s + (e - s) \div 2, a, b))
                      => \E i \in 1..Len(results) :
                            /\ results[i].y_start = s /\ results[i].y_end = e
                            /\ results[i].x_start = a /\ results[i].x_end = b
        /\ \A i \in 1..Len(results) : results[i].y_end # image.h
        /\ \A i \in 1..Len(results), j \in 1..Len(results) :
              i # j => results[i] # results[j]

\* Two regions of one run of rows, the second reaching the last column, on a
\* page whose first row is not blank.
C26_Witness ==
    /\ Separated
    /\ Len(results) = 2
    /\ results[1].y_start = 1 /\ results[1].x_end < image.w
    /\ results[2].y_start = 1 /\ results[2].x_end = image.w

\* Three blank rows at the foot of the page, and nothing reported.
C26_UnclosedRun ==
    ~(/\ Separated
      /\ image.h >= MinRegionHeight
      /\ \A y \in 0..(image.h - 1) : BlankRow(y)
      /\ results # <<>>)

(***************************************************************************)
(* Pipeline.run                                                            *)
(***************************************************************************)
\* The places in config['steps'] of the steps run executes if none fails.
Runnable ==
    {i \in 1..Len(arg.steps) :
        arg.steps[i].enabled /\ arg.steps[i].step_id \in KnownSteps}

\* The places of the steps executed so far.
Executed == {results[k].at : k \in 1..Len(results)}

\* C27: the steps executed are enabled, known steps taken in configuration
\* order, none twice; disabled and unknown steps leave no result; no step
\* follows one that returned 'failed', and only 'failed' ends the loop early;
\* save_results is called exactly once, with the results of the executed
\* steps, after an abort too.
C27_StepOrder ==
    /\ [](prog = "pipeline" =>
            /\ Executed \subseteq Runnable
            /\ \A k \in 1..Len(results) :
                  /\ results[k].step_id = arg.steps[results[k].at].step_id
                  /\ k < Len(results) => results[k].at < results[k + 1].at
                  /\ k < Len(results) => results[k].status # "failed"
            /\ \A i \in Runnable :
                  (\E j \in Executed : i < j) => i \in Executed
            /\ Len(loc.saved) <= 1
            /\ (pc = "done" =>
                  /\ loc.saved = <<results>>
                  /\ \/ Executed = Runnable
                     \/ results # <<>> /\ results[Len(results)].status = "failed"))
    /\ <>[](prog = "pipeline" /\ pc = "done" /\ Len(loc.saved) = 1)

\* A run that skipped a disabled step, went past a partial_success and was
\* stopped by a failure before its last step.
C27_Witness ==
    /\ prog = "pipeline" /\ pc = "done"
    /\ Len(arg.steps) = 3
    /\ Len(results) = 1 /\ results[1].status = "failed" /\ results[1].at = 2
    /\ ~arg.steps[1].enabled
    /\ 3 \in Runnable
    /\ loc.saved = <<results>>

(***************************************************************************)
(* RotationCorrector: correct_single, correct_batch and Step2's report.    *)
(***************************************************************************)
Handled == prog = "correct" /\ pc # "enter" /\ results # <<>>

\* The script ran to exit status 0 and printed an angle within the threshold.
SmallAngle ==
    /\ loc.exists /\ loc.script.how = "exit" /\ loc.script.returncode = 0
    /\ loc.script.angle # {}
    /\ \A a \in loc.script.angle : Abs(a) <= arg.skip_threshold

\* A missing input, a timeout, a non-zero exit or no angle in the output.
FailedRun ==
    \/ ~loc.exists
    \/ loc.script.how = "timeout"
    \/ loc.script.how = "exit" /\ loc.script.returncode # 0
    \/ loc.script.how = "exit" /\ loc.script.returncode = 0
       /\ loc.script.angle = {}

\* C28: correct_single's tuple (success, angle, message, skipped): skipped
\* implies success; a detected angle within skip_threshold gives
\* (True, angle, _, True) and leaves an unrotated copy of the input at the
\* output path; a missing input, a non-zero exit, an unparseable angle or a
\* timeout gives (False, None, _, False); a rotated success has an output
\* file.
C28_OutcomeTuple ==
    Handled =>
        LET r == results[Len(results)]
        IN /\ r.skipped => r.success
           /\ SmallAngle => /\ r.success /\ r.skipped
                            /\ r.angle = loc.script.angle
                            /\ loc.output = "original"
           /\ FailedRun => ~r.success /\ r.angle = {} /\ ~r.skipped
           /\ (r.success /\ ~r.skipped) => loc.output # "absent"

\* C28, apart from files corrected in place: the same statement holds when
\* the output path is another path than the input's.
C28_OutsideInPlace == arg.inplace \/ C28_OutcomeTuple

\* C28: the tuple itself is as stated in place too.
C28_TupleInPlace ==
    Handled =>
        LET r == results[Len(results)]
        IN /\ r.skipped => r.success
           /\ SmallAngle => r.success /\ r.skipped /\ r.angle = loc.script.angle
           /\ FailedRun => ~r.success /\ r.angle = {} /\ ~r.skipped
           /\ (r.success /\ ~r.skipped) => loc.output # "absent"

BatchReturned == prog = "correct" /\ Len(loc.returned) = 3
Reported ==
    prog = "correct" /\ pc = "done" /\ arg.caller = "step2" /\ status # "failed"

\* C29: correct_batch returns (success_count, total_count, results) with one
\* result per image file of the directory in sorted order, success_count the
\* number of results with success True; Step2 reports "success" iff
\* success_count = total_count and "partial_success" otherwise, with
\* rotated_count + skipped_count = success_count and
\* failed_count = total_count - success_count.
C29_BatchAccounting ==
    /\ BatchReturned =>
         LET success_count == loc.returned[1]
             total_count == loc.returned[2]
             rs == loc.returned[3]
         IN /\ Len(rs) = total_count
            /\ success_count = Cardinality({i \in DOMAIN rs : rs[i].success})
            /\ {rs[i].file : i \in DOMAIN rs} = arg.dir
            /\ \A i, j \in DOMAIN rs : i < j => rs[i].file < rs[j].file
    /\ Reported =>
         LET success_count == loc.returned[1]
             total_count == loc.returned[2]
             d == loc.result_data
         IN /\ d.status \in {"success", "partial_success"}
            /\ d.status = "success" <=> success_count = total_count
            /\ d.rotated_count + d.skipped_count = success_count
            /\ d.failed_count = total_count - success_count
            /\ status = d.status

C29_Witness ==
    /\ Reported
    /\ loc.result_data.status = "partial_success"
    /\ loc.result_data.rotated_count > 0
    /\ loc.result_data.skipped_count > 0
    /\ loc.result_data.failed_count > 0

(***************************************************************************)
(* The rotation sign of the rotate_image helpers.                          *)
(***************************************************************************)
\* An angle other than 0, 90, 180 and 270 degrees.
NonTrivial(a) ==
    ~\E q \in {0, 90, 180, 270} : FracEq(a, Frac(Deg(q), 1))

\* The helper resampled the image through a rotation matrix.
Resampled ==
    prog = "rotate" /\ pc = "done" /\ NonTrivial(arg.angle) /\ rot.kind = "warp"

\* C30: for the same non-trivial angle theta every rotate_image helper
\* applies a rotation of the same sign, positive theta turning
\* counter-clockwise: each hands theta itself to cv2.getRotationMatrix2D,
\* whose positive angles are counter-clockwise, and none hands over -theta.
C30_UniformSign ==
    /\ Resampled => rot.matAngle = arg.angle
    /\ Resampled =>
         \A a, b \in {rotate_image_hough(image, arg.angle),
                      rotate_image_pca(image, arg.angle),
                      rotate_image_dl(image, arg.angle),
                      rotate_image_opencv(image, arg.angle)} :
            (a.kind = "warp" /\ b.kind = "warp") => a.matAngle = b.matAngle

\* C30, apart from the Hough helper: the other three hand theta over as it
\* is.
C30_AllButHough ==
    (Resampled /\ arg.helper # "hough") => rot.matAngle = arg.angle

====
